---- MODULE Spec2Model ----
(***************************************************************************)
(* SpillRing: a fixed-capacity ring buffer that evicts its oldest item to  *)
(* a sink when a push finds it full (src/src/ring.rs).                     *)
(*                                                                         *)
(* Items are owned values that are moved, never copied; an item is         *)
(* identified by the sequence number of the call that handed it to the     *)
(* ring (1, 2, 3, ...).  0 stands for the content of an uninitialised slot.*)
(***************************************************************************)
EXTENDS Integers, Sequences, FiniteSets, TLC

\* ---------------------------------------------------------------- bounds
LogN == 1          \* capacity exponent: N = 2^LogN (N is a power of two)
IndexBits == 2     \* width of the head/tail counters (usize in the source)
MaxPush == 7       \* number of items the caller hands to the ring
LogA == 0          \* chain: capacity exponent of the outer ring A
LogB == 1          \* chain: capacity exponent of the inner ring B
MaxSpscPush == 4   \* SPSC: number of items the producer thread pushes
NumProducers == 2  \* MPSC: number of producers made by one create call
MaxProduce == 4    \* MPSC: number of items each producer may push
MaxDrain == 2      \* MPSC: number of Consumer::drain calls
LogH == 0          \* shared sink: capacity exponent of each producer's ring
MaxSharedPush == 2 \* shared sink: number of items each producer may push
MaxClones == 3     \* per-producer factory sink: number of clones taken
MaxFactorySend == 3 \* per-producer factory sink: number of items sent
MaxThreshold == 3  \* batching / reducing sink: largest threshold tried
MaxBatchSend == 5  \* batching / reducing sink: number of items sent
MaxBatchFlush == 2 \* batching / reducing sink: number of flush calls
MaxVariantSend == 3  \* sink variants: number of items sent
MaxVariantFlush == 3 \* sink variants: number of flush calls
NumWorkers == 2    \* worker pool: number of workers
MaxRuns == 2       \* worker pool: number of run calls
MaxCount == 2      \* worker pool: largest count passed to run
MaxReadPush == 5   \* read accessors: number of pushes
MaxNewWorkers == 2   \* pool construction: largest num_workers passed to new
MaxIdWorkers == 3   \* pool with a work function: largest number of workers
MaxChanPush == 5   \* ring with a channel sink: number of pushes

N == 2 ^ LogN
Modulus == 2 ^ IndexBits
Uninit == 0
CapA == 2 ^ LogA
CapB == 2 ^ LogB
CapH == 2 ^ LogH

VARIABLES
    buffer,    \* SpillRing.buffer : [0..N-1 -> item]
    head,      \* SpillRing.head   : index of the oldest live item
    tail,      \* SpillRing.tail   : index one past the newest live item
    sink,      \* SpillRing.sink   : the calls the sink has received, in order
    alive,     \* FALSE once the ring has been dropped
    pushed,    \* number of items accepted by the ring so far
    popped,    \* the items pop has returned to the caller, in order
    dropped,   \* the items clear_drop has discarded, in order
    pushOnly,  \* TRUE while push is the only operation that has been called
    call       \* the last call: [op, arg, ret]

\* ring chaining: ring A's sink is ring B, ring B's sink is a collecting sink
VARIABLES
    ringA,       \* the outer ring, [buffer, head, tail]
    ringB,       \* ring A's sink: the inner ring
    term,        \* ring B's sink: the calls the terminal sink has received
    chainAlive,  \* FALSE once ring A (and with it ring B) has been dropped
    chainPushed, \* number of items pushed into ring A
    chainPopped, \* the items popped from ring A or ring B, in order
    chainCall    \* [op, prev, pushOnly]: last call, the call before it

\* SPSC: a producer thread and a consumer thread share one ring whose sink
\* discards what it receives; every load, store, slot read and slot write
\* of push, pop, peek and len is a step of its own.
VARIABLES
    spscMode,   \* "unset"; "bp": the producer waits for len() < N-1 before
                \* each push; "free": it does not; "len": it does not, and
                \* the other thread calls len() instead of pop
    sBuf,       \* the shared ring's buffer
    sHead,      \* the shared ring's head (atomic)
    sTail,      \* the shared ring's tail (atomic)
    sWriting,   \* the slot the producer is in the middle of writing, or -1
    sDiscarded, \* the items the discarding sink has received, in order
    sPushed,    \* number of push calls that have returned
    pPc,        \* producer: position in its loop
    pTail,      \* producer: the tail it loaded
    pHead,      \* producer: the head it loaded
    pEvicted,   \* producer: the item it read for eviction
    cPc,        \* consumer: position in pop / peek
    cOp,        \* consumer: "pop" or "peek"
    cHead,      \* consumer: the head it loaded
    cTail,      \* consumer: the tail it loaded
    cItem,      \* consumer: the item it read
    received,   \* the values successful pops have returned, in order
    lPc,        \* len() caller: position
    lTail,      \* len() caller: the tail it loaded
    lenSeen,    \* the values len() has returned to the other thread
    sCall       \* the last step: [who, op, ret]

\* MPSC: producers that each own a ring and a sink, and a consumer that
\* collects the rings and drains them into a target sink
VARIABLES
    mRings,     \* producer id -> that producer's ring, [buffer, head, tail]
    mSinks,     \* producer id -> the calls that producer's own sink received
    mProduced,  \* producer id -> number of items it has pushed
    cRings,     \* Consumer.rings: the collected producers, in the order added
    target,     \* the calls the target sink of drain has received
    mDrains,    \* number of Consumer::drain calls so far
    mCall       \* the last call: [op, p, sent]

\* MPSC with one sink shared by all producers behind a mutex; every producer
\* runs on its own thread and is dropped there
VARIABLES
    hRings,     \* producer id -> that producer's ring, [buffer, head, tail]
    hShared,    \* the calls the sink inside the mutex has received, in order
    hProduced,  \* producer id -> number of items it has pushed
    hState,     \* producer id -> "live", "dropping" or "dropped"
    hCall       \* the last step: [op, p]

\* the per-producer factory sink: a root, its clones and the shared counter
VARIABLES
    kNextId,    \* ProducerSink.next_id, the counter shared by root and clones
    kSinks,     \* the instances, root first, then the clones in clone order:
                \* [inner, producer_id]
    kFactory,   \* the calls the factory has received: [id, inst]
    kSent,      \* number of items sent so far
    kCall       \* the last call: [op, inst, inner]; inner is the call it
                \* made on the inner sink, "send", "flush" or "none"

\* a batching or a reducing sink in front of a collecting inner sink
VARIABLES
    bKind,      \* "unset", "batch" or "reduce"
    bSink,      \* the sink: [threshold, buffer, inner]; inner is what the
                \* inner sink has received, in order
    bSent,      \* number of items sent to the sink
    bFlushes,   \* number of flush calls
    bCall       \* the last call: [op, forwarded], forwarded = number of
                \* sends the call made on the inner sink

\* one sink of any of the variants, driven directly
VARIABLES
    vKind,      \* "unset" or the variant
    vSink,      \* the sink's state: [batch, items, chan, prod, calls]
    vCallbacks, \* the closure calls made so far, in order
    vSent,      \* number of items sent
    vFlushes,   \* number of flush calls
    vCall       \* the last call and the one before: [op, prev]

\* a worker pool: the calling thread and one thread per worker
VARIABLES
    wPc,        \* per worker: its position in the thread's closure
    wLeft,      \* per worker: pushes left in the loop of this generation
    wSeen,      \* per worker: the barrier generation it waits to see end
    wGhost,     \* per worker: [recv, arrived, started, finished], how many
                \* commands it received, start barriers it reached and
                \* passed, generations of work it finished
    cmdQ,       \* per worker: the counts in its command channel
    txOpen,     \* whether cmd_txs still holds the senders
    startB,     \* start_barrier: [count, generation]
    doneB,      \* done_barrier: [count, generation]
    pRings,     \* per worker: its ring
    pSinks,     \* per worker: the call log of its own clone of the sink
    pPushed,    \* per worker: number of items it pushed
    mPc,        \* the calling thread's position
    mOp,        \* the call it is in: "none", "run", "into_consumer", "drop"
    mIdx,       \* the index of its loop over the workers
    mCount,     \* the count of the run it is in
    mSeen,      \* the barrier generation it waits to see end
    mGhost,     \* [runs, returned, total, counts]: run calls made, run
                \* calls returned, the sum of their counts, their counts
    pConsumer,  \* the workers whose rings the Consumer holds, in order
    pTarget     \* the call log of the sink the Consumer drains into

\* a ring whose sink forwards into a channel
VARIABLES
    xRing,      \* the ring
    xChan,      \* the channel: [connected, queue, escaped]
    xReceived,  \* what the receiver has taken from the channel, in order
    xPushed,    \* number of items pushed
    xCall       \* the last call: [op, ret]

\* a ring read through its accessors
VARIABLES
    aRing,      \* the ring
    aSink,      \* the call log of its sink
    aLive,      \* the items accepted and not yet removed, oldest first
    aPushed,    \* number of items pushed
    aCall       \* the last call: [op, arg, ret]

\* WorkerPool::with_sink: the calling thread and the threads it spawns
VARIABLES
    newNum,     \* the num_workers argument, -1 before the call
    newPc,      \* the calling thread: its position in with_sink
    newSpawned, \* number of threads spawned so far
    newSeen,    \* the barrier generation the calling thread waits to see end
    readyB,     \* ready_barrier: [count, generation]
    tPc,        \* per thread: its position in the closure
    tRing,      \* per thread: its ring, [built, touched, head, tail]
    tI,         \* per thread: i of the warming loop
    tSeen       \* per thread: the barrier generation it waits to see end

\* a pool whose workers call a work function with (ring, id, args)
VARIABLES
    uNum,       \* the number of workers passed to pool(), 0 before the call
    uPc,        \* the calling thread: "idle", "spawn", "ready", "running",
                \* "drained"
    uSpawned,   \* number of workers spawned so far
    uId,        \* per worker: the id its thread holds, -1 before it is spawned
    uRun,       \* number of run calls made
    uDone,      \* per worker: number of run calls it has worked on
    uCalls,     \* the calls of the work function, in order: [worker, id, run]
    uRings,     \* per worker: the items in its ring, oldest first
    uDrained    \* what drain yielded

ringVars == <<buffer, head, tail, sink, alive, pushed, popped, dropped, pushOnly, call>>

chainVars == <<ringA, ringB, term, chainAlive, chainPushed, chainPopped, chainCall>>

spscShared == <<sBuf, sHead, sTail, sWriting, sDiscarded, sPushed>>

spscProducer == <<pPc, pTail, pHead, pEvicted>>

spscConsumer == <<cPc, cOp, cHead, cTail, cItem, received>>

spscObserver == <<lPc, lTail, lenSeen>>

spscVars == <<spscMode, spscShared, spscProducer, spscConsumer, spscObserver, sCall>>

mpscVars == <<mRings, mSinks, mProduced, cRings, target, mDrains, mCall>>

sharedVars == <<hRings, hShared, hProduced, hState, hCall>>

factoryVars == <<kNextId, kSinks, kFactory, kSent, kCall>>

batchVars == <<bKind, bSink, bSent, bFlushes, bCall>>

variantVars == <<vKind, vSink, vCallbacks, vSent, vFlushes, vCall>>

chanVars == <<xRing, xChan, xReceived, xPushed, xCall>>

readVars == <<aRing, aSink, aLive, aPushed, aCall>>

ctorVars == <<newNum, newPc, newSpawned, newSeen, readyB, tPc, tRing, tI, tSeen>>

workVars == <<uNum, uPc, uSpawned, uId, uRun, uDone, uCalls, uRings, uDrained>>

poolVars == <<wPc, wLeft, wSeen, wGhost, cmdQ, txOpen, startB, doneB, pRings, pSinks,
              pPushed, mPc, mOp, mIdx, mCount, mSeen, mGhost, pConsumer, pTarget>>

vars == <<ringVars, chainVars, spscVars, mpscVars, sharedVars, factoryVars, batchVars,
          variantVars, poolVars, chanVars, readVars, ctorVars, workVars>>

\* the variables a step of one scenario leaves alone
notRingVars == <<chainVars, spscVars, mpscVars, sharedVars, factoryVars, batchVars,
    variantVars, poolVars, chanVars, readVars, ctorVars, workVars>>

notChainVars == <<ringVars, spscVars, mpscVars, sharedVars, factoryVars, batchVars,
    variantVars, poolVars, chanVars, readVars, ctorVars, workVars>>

notSpscVars == <<ringVars, chainVars, mpscVars, sharedVars, factoryVars, batchVars,
    variantVars, poolVars, chanVars, readVars, ctorVars, workVars>>

notMpscVars == <<ringVars, chainVars, spscVars, sharedVars, factoryVars, batchVars,
    variantVars, poolVars, chanVars, readVars, ctorVars, workVars>>

notSharedVars == <<ringVars, chainVars, spscVars, mpscVars, factoryVars, batchVars,
    variantVars, poolVars, chanVars, readVars, ctorVars, workVars>>

notFactoryVars == <<ringVars, chainVars, spscVars, mpscVars, sharedVars, batchVars,
    variantVars, poolVars, chanVars, readVars, ctorVars, workVars>>

notBatchVars == <<ringVars, chainVars, spscVars, mpscVars, sharedVars, factoryVars,
    variantVars, poolVars, chanVars, readVars, ctorVars, workVars>>

\* ------------------------------------------------------------ arithmetic
\* usize::wrapping_add / usize::wrapping_sub on IndexBits-wide counters
WrappingAdd(a, b) == (a + b) % Modulus

WrappingSubSaturating(a, b) == IF a >= b THEN a - b ELSE 0

WrappingSub(a, b) == (a - b + Modulus) % Modulus

\* ------------------------------------------------------------------ sink
\* A sink built from a send closure and a flush closure that record
\* the calls they receive.
SendEv(item) == [op |-> "send", item |-> item]

FlushEv == [op |-> "flush", item |-> Uninit]

SinkSend(s, item) == Append(s, SendEv(item))

SinkFlush(s) == Append(s, FlushEv)

\* the items the sink has received, in order (CollectSink::items)
RECURSIVE SinkItems(_)
SinkItems(s) ==
    IF s = <<>> THEN <<>>
    ELSE IF Head(s).op = "send"
         THEN <<Head(s).item>> \o SinkItems(Tail(s))
         ELSE SinkItems(Tail(s))

\* ---------------------------------------------------------- return values
Unit == [tag |-> "unit", val |-> 0]

None == [tag |-> "none", val |-> 0]

Some(x) == [tag |-> "some", val |-> x]

Ok == [tag |-> "ok", val |-> 0]

Err(x) == [tag |-> "err", val |-> x]

Count(n) == [tag |-> "count", val |-> n]

\* ------------------------------------------------------------------ ring
\* the ring as a value: the three fields the operations read and write
Ring == [buffer |-> buffer, head |-> head, tail |-> tail]

\* SpillRing::capacity: the number of slots of the buffer
Capacity(r) == Cardinality(DOMAIN r.buffer)

\* SpillRing::len
RingLen(r) == WrappingSub(r.tail, r.head)

\* SpillRing::is_empty
IsEmpty(r) == r.head = r.tail

\* SpillRing::is_full
IsFull(r) == WrappingSub(r.tail, r.head) >= Capacity(r)

\* SpillRing::get(index), 0 = oldest
Get(r, index) ==
    IF index >= RingLen(r) THEN None
    ELSE Some(r.buffer[WrappingAdd(r.head, index) % Capacity(r)])

\* the live items, oldest to newest (SpillRing::iter)
Live(r) == [i \in 1..RingLen(r) |-> Get(r, i - 1).val]

\* SpillRing::pop
PopEmptyAdvance(r) ==
    IF r.head = r.tail
    THEN [ring |-> [r EXCEPT !.head = WrappingAdd(r.head, 1)], ret |-> None]
    ELSE [ring |-> [r EXCEPT !.head = WrappingAdd(r.head, 1)],
          ret  |-> Some(r.buffer[r.head % Capacity(r)])]

PopNewest(r) ==
    IF r.head = r.tail THEN [ring |-> r, ret |-> None]
    ELSE [ring |-> [r EXCEPT !.tail = WrappingSub(r.tail, 1)],
          ret  |-> Some(r.buffer[WrappingSub(r.tail, 1) % Capacity(r)])]

Pop(r) ==
    IF r.head = r.tail THEN [ring |-> r, ret |-> None]
    ELSE [ring |-> [r EXCEPT !.head = WrappingAdd(r.head, 1)],
          ret  |-> Some(r.buffer[r.head % Capacity(r)])]

\* SpillRing::push
PushNoEvict(r, s, item) ==
    [ring |-> [r EXCEPT !.buffer[r.tail % Capacity(r)] = item,
                        !.tail = WrappingAdd(r.tail, 1)],
     sink |-> s]

PushWriteFirst(r, s, item) ==
    LET w == [r EXCEPT !.buffer[r.tail % Capacity(r)] = item]
        full == RingLen(r) >= Capacity(r)
    IN  [ring |-> [w EXCEPT !.head = IF full THEN WrappingAdd(r.head, 1) ELSE r.head,
                            !.tail = WrappingAdd(r.tail, 1)],
         sink |-> IF full THEN SinkSend(s, w.buffer[r.head % Capacity(r)]) ELSE s]

PushEvictKeepHead(r, s, item) ==
    LET full == RingLen(r) >= Capacity(r)
    IN  [ring |-> [r EXCEPT !.buffer[r.tail % Capacity(r)] = item,
                            !.tail = WrappingAdd(r.tail, 1)],
         sink |-> IF full THEN SinkSend(s, r.buffer[r.head % Capacity(r)]) ELSE s]

Push(r, s, item) ==
    LET len == WrappingSub(r.tail, r.head)
        full == len >= Capacity(r)
        evicted == r.buffer[r.head % Capacity(r)]
        r1 == IF full THEN [r EXCEPT !.head = WrappingAdd(r.head, 1)] ELSE r
        s1 == IF full THEN SinkSend(s, evicted) ELSE s
    IN  [ring |-> [r1 EXCEPT !.buffer[r.tail % Capacity(r)] = item,
                             !.tail = WrappingAdd(r.tail, 1)],
         sink |-> s1]

\* RingProducer::try_push
TryPushEvicting(r, s, item) ==
    [ring |-> Push(r, s, item).ring, sink |-> Push(r, s, item).sink, ret |-> Ok]

TryPush(r, s, item) ==
    IF WrappingSub(r.tail, r.head) >= Capacity(r)
    THEN [ring |-> r, sink |-> s, ret |-> Err(item)]
    ELSE [ring |-> [r EXCEPT !.buffer[r.tail % Capacity(r)] = item,
                             !.tail = WrappingAdd(r.tail, 1)],
          sink |-> s, ret |-> Ok]

\* SpillRing::flush_unchecked: while let Some(item) = pop() { sink.send(item) }
RECURSIVE FlushLoop(_, _, _)
FlushLoop(r, s, count) ==
    LET p == Pop(r)
    IN  IF p.ret.tag = "none"
        THEN [ring |-> r, sink |-> s, count |-> count]
        ELSE FlushLoop(p.ring, SinkSend(s, p.ret.val), count + 1)

FlushThenSinkFlush(r, s) ==
    LET f == FlushLoop(r, s, 0)
    IN  [ring |-> f.ring, sink |-> SinkFlush(f.sink), count |-> f.count]

FlushNewestFirst(r, s) ==
    LET f == FlushLoop(r, <<>>, 0)
        rev == [i \in 1..Len(f.sink) |-> f.sink[Len(f.sink) + 1 - i]]
    IN  [ring |-> f.ring, sink |-> s \o rev, count |-> f.count]

FlushOnce(r, s) ==
    LET p == Pop(r)
    IN  IF p.ret.tag = "none"
        THEN [ring |-> r, sink |-> s, count |-> 0]
        ELSE [ring |-> p.ring, sink |-> SinkSend(s, p.ret.val), count |-> 1]

\* SpillRing::flush
Flush(r, s) == FlushLoop(r, s, 0)

\* SpillRing::push_and_flush: self.push(item); self.flush()
PushAndFlush(r, s, item) ==
    LET p == Push(r, s, item)
    IN  Flush(p.ring, p.sink)

\* SpillRing::clear_drop: while pop().is_some() {}
RECURSIVE ClearDropLoop(_, _)
ClearDropLoop(r, gone) ==
    LET p == Pop(r)
    IN  IF p.ret.tag = "none"
        THEN [ring |-> r, gone |-> gone]
        ELSE ClearDropLoop(p.ring, Append(gone, p.ret.val))

ClearDropViaSink(r, s) ==
    [ring |-> Flush(r, s).ring, sink |-> Flush(r, s).sink, gone |-> <<>>]

ClearDrop(r, s) ==
    [ring |-> ClearDropLoop(r, <<>>).ring, sink |-> s,
     gone |-> ClearDropLoop(r, <<>>).gone]

\* Drop for SpillRing: self.flush(); self.sink.flush()
DropSinkFlushFirst(r, s) ==
    [ring |-> Flush(r, s).ring, sink |-> Flush(r, SinkFlush(s)).sink]

DropRing(r, s) ==
    LET f == Flush(r, s)
    IN  [ring |-> f.ring, sink |-> SinkFlush(f.sink)]

\* ----------------------------------------------------------------- steps
SetRing(r) ==
    /\ buffer' = r.buffer
    /\ head' = r.head
    /\ tail' = r.tail

\* SpillRing::with_sink
RingInit ==
    /\ buffer = [i \in 0..(N - 1) |-> Uninit]
    /\ head = 0
    /\ tail = 0
    /\ sink = <<>>
    /\ alive = TRUE
    /\ pushed = 0
    /\ popped = <<>>
    /\ dropped = <<>>
    /\ pushOnly = TRUE
    /\ call = [op |-> "with_sink", arg |-> 0, ret |-> Unit]

DoPush ==
    /\ alive
    /\ pushed < MaxPush
    /\ \E item \in {pushed + 1} :
        LET res == Push(Ring, sink, item)
        IN  /\ SetRing(res.ring)
            /\ sink' = res.sink
            /\ pushed' = pushed + 1
            /\ call' = [op |-> "push", arg |-> item, ret |-> Unit]
    /\ UNCHANGED <<alive, popped, dropped, pushOnly>>
    /\ UNCHANGED notRingVars

DoTryPush ==
    /\ alive
    /\ pushed < MaxPush
    /\ \E item \in {pushed + 1} :
        LET res == TryPush(Ring, sink, item)
        IN  /\ SetRing(res.ring)
            /\ sink' = res.sink
            /\ pushed' = IF res.ret.tag = "ok" THEN pushed + 1 ELSE pushed
            /\ call' = [op |-> "try_push", arg |-> item, ret |-> res.ret]
    /\ pushOnly' = FALSE
    /\ UNCHANGED <<alive, popped, dropped>>
    /\ UNCHANGED notRingVars

DoPop ==
    /\ alive
    /\ LET res == Pop(Ring)
       IN  /\ SetRing(res.ring)
           /\ popped' = IF res.ret.tag = "some"
                        THEN Append(popped, res.ret.val) ELSE popped
           /\ call' = [op |-> "pop", arg |-> 0, ret |-> res.ret]
    /\ pushOnly' = FALSE
    /\ UNCHANGED <<sink, alive, pushed, dropped>>
    /\ UNCHANGED notRingVars

DoFlush ==
    /\ alive
    /\ LET res == Flush(Ring, sink)
       IN  /\ SetRing(res.ring)
           /\ sink' = res.sink
           /\ call' = [op |-> "flush", arg |-> 0, ret |-> Count(res.count)]
    /\ pushOnly' = FALSE
    /\ UNCHANGED <<alive, pushed, popped, dropped>>
    /\ UNCHANGED notRingVars

DoPushAndFlush ==
    /\ alive
    /\ pushed < MaxPush
    /\ \E item \in {pushed + 1} :
        LET res == PushAndFlush(Ring, sink, item)
        IN  /\ SetRing(res.ring)
            /\ sink' = res.sink
            /\ pushed' = pushed + 1
            /\ call' = [op |-> "push_and_flush", arg |-> item, ret |-> Unit]
    /\ pushOnly' = FALSE
    /\ UNCHANGED <<alive, popped, dropped>>
    /\ UNCHANGED notRingVars

\* SpillRing::clear
DoClear ==
    /\ alive
    /\ LET res == Flush(Ring, sink)
       IN  /\ SetRing(res.ring)
           /\ sink' = res.sink
           /\ call' = [op |-> "clear", arg |-> 0, ret |-> Unit]
    /\ pushOnly' = FALSE
    /\ UNCHANGED <<alive, pushed, popped, dropped>>
    /\ UNCHANGED notRingVars

DoClearDrop ==
    /\ alive
    /\ LET res == ClearDrop(Ring, sink)
       IN  /\ SetRing(res.ring)
           /\ sink' = res.sink
           /\ dropped' = dropped \o res.gone
           /\ call' = [op |-> "clear_drop", arg |-> 0, ret |-> Unit]
    /\ pushOnly' = FALSE
    /\ UNCHANGED <<alive, pushed, popped>>
    /\ UNCHANGED notRingVars

DoDrop ==
    /\ alive
    /\ LET res == DropRing(Ring, sink)
       IN  /\ SetRing(res.ring)
           /\ sink' = res.sink
           /\ call' = [op |-> "drop", arg |-> 0, ret |-> Unit]
    /\ alive' = FALSE
    /\ pushOnly' = FALSE
    /\ UNCHANGED <<pushed, popped, dropped>>
    /\ UNCHANGED notRingVars

Next ==
    \/ DoPush
    \/ DoTryPush
    \/ DoPop
    \/ DoFlush
    \/ DoPushAndFlush
    \/ DoClear
    \/ DoClearDrop
    \/ DoDrop

\* ------------------------------------------------------- ring chaining
\* A ring used as the sink of another ring: send(item) pushes the item,
\* flush() flushes the ring into its own sink.  The outer ring's calls on
\* its sink are applied to the inner ring in the order they were made.
RingSinkSend(r, s, item) == Push(r, s, item)

RingSinkFlush(r, s) == [ring |-> Flush(r, s).ring, sink |-> Flush(r, s).sink]

RECURSIVE ApplyToRingSink(_, _, _)
ApplyToRingSink(evs, r, s) ==
    IF evs = <<>> THEN [ring |-> r, sink |-> s]
    ELSE LET e == Head(evs)
             nxt == IF e.op = "send" THEN RingSinkSend(r, s, e.item)
                                     ELSE RingSinkFlush(r, s)
         IN  ApplyToRingSink(Tail(evs), nxt.ring, nxt.sink)

\* let ring2 = SpillRing::with_sink(final_sink);
\* let ring1 = SpillRing::with_sink(ring2);
ChainInit ==
    /\ ringA = [buffer |-> [i \in 0..(CapA - 1) |-> Uninit], head |-> 0, tail |-> 0]
    /\ ringB = [buffer |-> [i \in 0..(CapB - 1) |-> Uninit], head |-> 0, tail |-> 0]
    /\ term = <<>>
    /\ chainAlive = TRUE
    /\ chainPushed = 0
    /\ chainPopped = <<>>
    /\ chainCall = [op |-> "with_sink", prev |-> "with_sink", pushOnly |-> TRUE]

\* ring1.push(item)
ChainPush ==
    /\ chainAlive
    /\ chainPushed < MaxPush
    /\ \E item \in {chainPushed + 1} :
        LET a == Push(ringA, <<>>, item)
            b == ApplyToRingSink(a.sink, ringB, term)
        IN  /\ ringA' = a.ring
            /\ ringB' = b.ring
            /\ term' = b.sink
    /\ chainPushed' = chainPushed + 1
    /\ chainCall' = [op |-> "push", prev |-> chainCall.op,
                     pushOnly |-> chainCall.pushOnly]
    /\ UNCHANGED <<chainAlive, chainPopped>>
    /\ UNCHANGED notChainVars

\* ring1.flush()
ChainFlushA ==
    /\ chainAlive
    /\ LET a == Flush(ringA, <<>>)
           b == ApplyToRingSink(a.sink, ringB, term)
       IN  /\ ringA' = a.ring
           /\ ringB' = b.ring
           /\ term' = b.sink
    /\ chainCall' = [op |-> "flushA", prev |-> chainCall.op, pushOnly |-> FALSE]
    /\ UNCHANGED <<chainAlive, chainPushed, chainPopped>>
    /\ UNCHANGED notChainVars

\* ring1.sink_mut_unchecked().flush()
ChainFlushB ==
    /\ chainAlive
    /\ LET b == Flush(ringB, term)
       IN  /\ ringB' = b.ring
           /\ term' = b.sink
    /\ chainCall' = [op |-> "flushB", prev |-> chainCall.op, pushOnly |-> FALSE]
    /\ UNCHANGED <<ringA, chainAlive, chainPushed, chainPopped>>
    /\ UNCHANGED notChainVars

\* ring1.pop()
ChainPopA ==
    /\ chainAlive
    /\ LET a == Pop(ringA)
       IN  /\ ringA' = a.ring
           /\ chainPopped' = IF a.ret.tag = "some"
                             THEN Append(chainPopped, a.ret.val) ELSE chainPopped
    /\ chainCall' = [op |-> "popA", prev |-> chainCall.op, pushOnly |-> FALSE]
    /\ UNCHANGED <<ringB, term, chainAlive, chainPushed>>
    /\ UNCHANGED notChainVars

\* ring1.sink().pop()
ChainPopB ==
    /\ chainAlive
    /\ LET b == Pop(ringB)
       IN  /\ ringB' = b.ring
           /\ chainPopped' = IF b.ret.tag = "some"
                             THEN Append(chainPopped, b.ret.val) ELSE chainPopped
    /\ chainCall' = [op |-> "popB", prev |-> chainCall.op, pushOnly |-> FALSE]
    /\ UNCHANGED <<ringA, term, chainAlive, chainPushed>>
    /\ UNCHANGED notChainVars

\* ring1 goes out of scope: Drop for ring A runs, then its sink field, ring
\* B, is dropped in turn.
ChainDropA ==
    /\ chainAlive
    /\ LET a == DropRing(ringA, <<>>)
           b == ApplyToRingSink(a.sink, ringB, term)
           d == DropRing(b.ring, b.sink)
       IN  /\ ringA' = a.ring
           /\ ringB' = d.ring
           /\ term' = d.sink
    /\ chainAlive' = FALSE
    /\ chainCall' = [op |-> "dropA", prev |-> chainCall.op, pushOnly |-> FALSE]
    /\ UNCHANGED <<chainPushed, chainPopped>>
    /\ UNCHANGED notChainVars

ChainNext ==
    \/ ChainPush
    \/ ChainFlushA
    \/ ChainFlushB
    \/ ChainPopA
    \/ ChainPopB
    \/ ChainDropA

\* ------------------------------------------------------------------ SPSC
\* the caller's backpressure test: while ring.len() >= N - 1 { spin }
BackpressureLate(len, cap) == len > cap

BackpressureBlocks(len, cap) == len >= cap - 1

\* what a read of a slot can return: a read that overlaps the producer's
\* write of the same slot is a data race; for the word-sized items of the
\* tests it sees the old content or the new content
SlotRead(slot) ==
    IF sWriting = slot THEN {sBuf[slot], sPushed + 1} ELSE {sBuf[slot]}

\* let ring = Arc::new(SpillRing::new()); two threads are spawned
SpscInit ==
    /\ spscMode = "unset"
    /\ sBuf = [i \in 0..(N - 1) |-> Uninit]
    /\ sHead = 0
    /\ sTail = 0
    /\ sWriting = 0 - 1
    /\ sDiscarded = <<>>
    /\ sPushed = 0
    /\ pPc = "idle"
    /\ pTail = 0
    /\ pHead = 0
    /\ pEvicted = Uninit
    /\ cPc = "idle"
    /\ cOp = "pop"
    /\ cHead = 0
    /\ cTail = 0
    /\ cItem = Uninit
    /\ received = <<>>
    /\ lPc = "idle"
    /\ lTail = 0
    /\ lenSeen = <<>>
    /\ sCall = [who |-> "main", op |-> "new", ret |-> Unit]

\* which loops the two threads run; in mode "solo" there is one owner, which
\* begins a call only when the call before it has returned
SpscStart ==
    /\ spscMode = "unset"
    /\ \E m \in {"bp", "free", "len", "solo"} : spscMode' = m
    /\ sCall' = [who |-> "main", op |-> "spawn", ret |-> Unit]
    /\ UNCHANGED <<spscShared, spscProducer, spscConsumer, spscObserver>>
    /\ UNCHANGED notSpscVars

\* producer, backpressure loop: ring.len() loads tail ...
ProdLenLoadTail ==
    /\ spscMode = "bp"
    /\ pPc = "idle"
    /\ sPushed < MaxSpscPush
    /\ pTail' = sTail
    /\ pPc' = "lenLoadedTail"
    /\ sCall' = [who |-> "producer", op |-> "len_load_tail", ret |-> Unit]
    /\ UNCHANGED <<spscMode, spscShared, pHead, pEvicted, spscConsumer, spscObserver>>
    /\ UNCHANGED notSpscVars

\* ... then head; the producer spins while len >= N - 1
ProdLenLoadHead ==
    /\ pPc = "lenLoadedTail"
    /\ pHead' = sHead
    /\ pPc' = IF BackpressureBlocks(WrappingSub(pTail, sHead), N)
              THEN "idle" ELSE "push"
    /\ sCall' = [who |-> "producer", op |-> "len_load_head",
                 ret |-> Count(WrappingSub(pTail, sHead))]
    /\ UNCHANGED <<spscMode, spscShared, pTail, pEvicted, spscConsumer, spscObserver>>
    /\ UNCHANGED notSpscVars

\* push: let tail = self.tail.load_relaxed()
ProdLoadTail ==
    /\ \/ pPc = "push"
       \/ /\ pPc = "idle"
          /\ spscMode \in {"free", "len"}
          /\ sPushed < MaxSpscPush
       \/ /\ pPc = "idle"
          /\ spscMode = "solo"
          /\ cPc = "idle"
          /\ sPushed < MaxSpscPush
    /\ pTail' = sTail
    /\ pPc' = "loadedTail"
    /\ sCall' = [who |-> "producer", op |-> "push_load_tail", ret |-> Unit]
    /\ UNCHANGED <<spscMode, spscShared, pHead, pEvicted, spscConsumer, spscObserver>>
    /\ UNCHANGED notSpscVars

\* push: let head = self.head.load(); if len >= N { evict }
ProdLoadHead ==
    /\ pPc = "loadedTail"
    /\ pHead' = sHead
    /\ pPc' = IF WrappingSub(pTail, sHead) >= N THEN "evictRead" ELSE "write"
    /\ sCall' = [who |-> "producer", op |-> "push_load_head", ret |-> Unit]
    /\ UNCHANGED <<spscMode, spscShared, pTail, pEvicted, spscConsumer, spscObserver>>
    /\ UNCHANGED notSpscVars

\* push, eviction branch: read the slot at head % N
ProdEvictRead ==
    /\ pPc = "evictRead"
    /\ pEvicted' = sBuf[pHead % N]
    /\ pPc' = "evictStore"
    /\ sCall' = [who |-> "producer", op |-> "evict_read", ret |-> Unit]
    /\ UNCHANGED <<spscMode, spscShared, pTail, pHead, spscConsumer, spscObserver>>
    /\ UNCHANGED notSpscVars

\* push, eviction branch: self.head.store(head.wrapping_add(1))
ProdEvictStoreKeepsHead ==
    /\ pPc = "evictStore"
    /\ sHead' = pHead
    /\ pPc' = "evictSend"
    /\ sCall' = [who |-> "producer", op |-> "evict_store_head", ret |-> Unit]
    /\ UNCHANGED <<spscMode, sBuf, sTail, sWriting, sDiscarded, sPushed>>
    /\ UNCHANGED <<pTail, pHead, pEvicted, spscConsumer, spscObserver>>
    /\ UNCHANGED notSpscVars

ProdEvictStore ==
    /\ pPc = "evictStore"
    /\ sHead' = WrappingAdd(pHead, 1)
    /\ pPc' = "evictSend"
    /\ sCall' = [who |-> "producer", op |-> "evict_store_head", ret |-> Unit]
    /\ UNCHANGED <<spscMode, sBuf, sTail, sWriting, sDiscarded, sPushed>>
    /\ UNCHANGED <<pTail, pHead, pEvicted, spscConsumer, spscObserver>>
    /\ UNCHANGED notSpscVars

\* push, eviction branch: sink.send(evicted)
ProdEvictSend ==
    /\ pPc = "evictSend"
    /\ sDiscarded' = Append(sDiscarded, pEvicted)
    /\ pPc' = "write"
    /\ sCall' = [who |-> "producer", op |-> "evict_send", ret |-> Unit]
    /\ UNCHANGED <<spscMode, sBuf, sHead, sTail, sWriting, sPushed>>
    /\ UNCHANGED <<pTail, pHead, pEvicted, spscConsumer, spscObserver>>
    /\ UNCHANGED notSpscVars

\* push: the write of the slot at tail % N begins ...
ProdWriteBegin ==
    /\ pPc = "write"
    /\ sWriting' = pTail % N
    /\ pPc' = "writing"
    /\ sCall' = [who |-> "producer", op |-> "write_begin", ret |-> Unit]
    /\ UNCHANGED <<spscMode, sBuf, sHead, sTail, sDiscarded, sPushed>>
    /\ UNCHANGED <<pTail, pHead, pEvicted, spscConsumer, spscObserver>>
    /\ UNCHANGED notSpscVars

\* ... and completes
ProdWriteEnd ==
    /\ pPc = "writing"
    /\ sBuf' = [sBuf EXCEPT ![pTail % N] = sPushed + 1]
    /\ sWriting' = 0 - 1
    /\ pPc' = "storeTail"
    /\ sCall' = [who |-> "producer", op |-> "write_end", ret |-> Unit]
    /\ UNCHANGED <<spscMode, sHead, sTail, sDiscarded, sPushed>>
    /\ UNCHANGED <<pTail, pHead, pEvicted, spscConsumer, spscObserver>>
    /\ UNCHANGED notSpscVars

\* push: self.tail.store(tail.wrapping_add(1))
ProdStoreTail ==
    /\ pPc = "storeTail"
    /\ sTail' = WrappingAdd(pTail, 1)
    /\ sPushed' = sPushed + 1
    /\ pPc' = "idle"
    /\ sCall' = [who |-> "producer", op |-> "push_store_tail", ret |-> Unit]
    /\ UNCHANGED <<spscMode, sBuf, sHead, sWriting, sDiscarded>>
    /\ UNCHANGED <<pTail, pHead, pEvicted, spscConsumer, spscObserver>>
    /\ UNCHANGED notSpscVars

\* pop / peek: let head = self.head.load_relaxed()
ConsLoadHead ==
    /\ \/ spscMode \in {"bp", "free"}
       \/ spscMode = "solo" /\ pPc = "idle"
    /\ cPc = "idle"
    /\ \E op \in {"pop", "peek"} : cOp' = op
    /\ cHead' = sHead
    /\ cPc' = "loadedHead"
    /\ sCall' = [who |-> "consumer", op |-> "load_head", ret |-> Unit]
    /\ UNCHANGED <<spscMode, spscShared, spscProducer, cTail, cItem, received, spscObserver>>
    /\ UNCHANGED notSpscVars

\* pop / peek: let tail = self.tail.load(); if head == tail { return None }
ConsLoadTail ==
    /\ cPc = "loadedHead"
    /\ cTail' = sTail
    /\ cPc' = IF cHead = sTail THEN "idle" ELSE "read"
    /\ sCall' = [who |-> "consumer", op |-> "load_tail",
                 ret |-> IF cHead = sTail THEN None ELSE Unit]
    /\ UNCHANGED <<spscMode, spscShared, spscProducer, cOp, cHead, cItem, received, spscObserver>>
    /\ UNCHANGED notSpscVars

\* pop / peek: read the slot at head % N; peek returns here
ConsReadSlot ==
    /\ cPc = "read"
    /\ \E v \in SlotRead(cHead % N) :
        /\ cItem' = v
        /\ sCall' = [who |-> "consumer", op |-> "read_slot",
                     ret |-> IF cOp = "peek" THEN Some(v) ELSE Unit]
    /\ cPc' = IF cOp = "peek" THEN "idle" ELSE "storeHead"
    /\ UNCHANGED <<spscMode, spscShared, spscProducer, cOp, cHead, cTail, received, spscObserver>>
    /\ UNCHANGED notSpscVars

\* pop: self.head.store(head.wrapping_add(1)); Some(item)
ConsStoreHead ==
    /\ cPc = "storeHead"
    /\ sHead' = WrappingAdd(cHead, 1)
    /\ received' = Append(received, cItem)
    /\ cPc' = "idle"
    /\ sCall' = [who |-> "consumer", op |-> "pop_store_head", ret |-> Some(cItem)]
    /\ UNCHANGED <<spscMode, sBuf, sTail, sWriting, sDiscarded, sPushed>>
    /\ UNCHANGED <<spscProducer, cOp, cHead, cTail, cItem, spscObserver>>
    /\ UNCHANGED notSpscVars

\* len: self.tail.load() ...
ObsLoadTail ==
    /\ spscMode = "len"
    /\ lPc = "idle"
    /\ Len(lenSeen) < MaxSpscPush
    /\ lTail' = sTail
    /\ lPc' = "loadedTail"
    /\ sCall' = [who |-> "observer", op |-> "len_load_tail", ret |-> Unit]
    /\ UNCHANGED <<spscMode, spscShared, spscProducer, spscConsumer, lenSeen>>
    /\ UNCHANGED notSpscVars

\* ... .wrapping_sub(self.head.load())
ObsLoadHead ==
    /\ lPc = "loadedTail"
    /\ lenSeen' = Append(lenSeen, WrappingSub(lTail, sHead))
    /\ lPc' = "idle"
    /\ sCall' = [who |-> "observer", op |-> "len_load_head",
                 ret |-> Count(WrappingSub(lTail, sHead))]
    /\ UNCHANGED <<spscMode, spscShared, spscProducer, spscConsumer, lTail>>
    /\ UNCHANGED notSpscVars

SpscNext ==
    \/ SpscStart
    \/ ProdLenLoadTail
    \/ ProdLenLoadHead
    \/ ProdLoadTail
    \/ ProdLoadHead
    \/ ProdEvictRead
    \/ ProdEvictStore
    \/ ProdEvictSend
    \/ ProdWriteBegin
    \/ ProdWriteEnd
    \/ ProdStoreTail
    \/ ConsLoadHead
    \/ ConsLoadTail
    \/ ConsReadSlot
    \/ ConsStoreHead
    \/ ObsLoadTail
    \/ ObsLoadHead

\* ------------------------------------------------------------------ MPSC
Producers == 1..NumProducers

\* the k-th item pushed by producer p
ItemOf(p, k) == p * 10 + k

\* the producer an item came from
ProducerOf(item) == item \div 10

\* SpillRing::drain: removes and yields every live item, oldest first
RECURSIVE DrainLoop(_, _)
DrainLoop(r, out) ==
    IF Pop(r).ret.tag = "none" THEN [ring |-> r, items |-> out]
    ELSE DrainLoop(Pop(r).ring, Append(out, Pop(r).ret.val))

Drain(r) == DrainLoop(r, <<>>)

\* Sink::send_all: send for each item of the iterator
RECURSIVE SendAll(_, _)
SendAll(s, items) ==
    IF items = <<>> THEN s
    ELSE SendAll(SinkSend(s, Head(items)), Tail(items))

\* Producer::push: self.ring.push(item), on this producer's ring and sink
ProducerPushSharedSink(rings, sinks, p, item) ==
    LET r == Push(rings[p], sinks[p], item)
    IN  [rings |-> [rings EXCEPT ![p] = r.ring],
         sinks |-> [q \in DOMAIN sinks |-> r.sink]]

ProducerPush(rings, sinks, p, item) ==
    LET r == Push(rings[p], sinks[p], item)
    IN  [rings |-> [rings EXCEPT ![p] = r.ring],
         sinks |-> [sinks EXCEPT ![p] = r.sink]]

\* Consumer::drain, the loop: for ring in &mut self.rings
\*     { sink.send_all(ring.drain()) }
RECURSIVE DrainRings(_, _, _)
DrainRings(rings, order, tgt) ==
    IF order = <<>> THEN [rings |-> rings, target |-> tgt]
    ELSE LET d == Drain(rings[Head(order)])
         IN  DrainRings([rings EXCEPT ![Head(order)] = d.ring], Tail(order),
                        SendAll(tgt, d.items))

\* Consumer::drain: the loop, then sink.flush()
ConsumerDrainSkipLast(rings, order, tgt) ==
    LET d == DrainRings(rings,
                        IF order = <<>> THEN order
                        ELSE SubSeq(order, 1, Len(order) - 1), tgt)
    IN  [rings |-> d.rings, target |-> SinkFlush(d.target)]

ConsumerDrainFlushFirst(rings, order, tgt) ==
    LET d == DrainRings(rings, order, SinkFlush(tgt))
    IN  [rings |-> d.rings, target |-> d.target]

ConsumerDrain(rings, order, tgt) ==
    LET d == DrainRings(rings, order, tgt)
    IN  [rings |-> d.rings, target |-> SinkFlush(d.target)]

\* the producers whose rings the consumer holds
Collected == {cRings[i] : i \in 1..Len(cRings)}

\* MpscRing::with_sink(num_producers, sink): every producer gets a new ring
\* and its own clone of the (empty) sink; the consumer holds no ring
MpscInit ==
    /\ mRings = [p \in Producers |->
                    [buffer |-> [i \in 0..(N - 1) |-> Uninit], head |-> 0, tail |-> 0]]
    /\ mSinks = [p \in Producers |-> <<>>]
    /\ mProduced = [p \in Producers |-> 0]
    /\ cRings = <<>>
    /\ target = <<>>
    /\ mDrains = 0
    /\ mCall = [op |-> "with_sink", p |-> 0, sent |-> 0]

\* producer.push(item) on a producer that has not been collected
MpscPush ==
    /\ \E p \in Producers \ Collected :
        /\ mProduced[p] < MaxProduce
        /\ LET r == ProducerPush(mRings, mSinks, p, ItemOf(p, mProduced[p] + 1))
           IN  /\ mRings' = r.rings
               /\ mSinks' = r.sinks
        /\ mProduced' = [mProduced EXCEPT ![p] = mProduced[p] + 1]
        /\ mCall' = [op |-> "push", p |-> p, sent |-> 0]
    /\ UNCHANGED <<cRings, target, mDrains>>
    /\ UNCHANGED notMpscVars

\* collect_producers([producer], &mut consumer): consumer.add_ring(ring)
MpscCollect ==
    /\ \E p \in Producers \ Collected :
        /\ cRings' = Append(cRings, p)
        /\ mCall' = [op |-> "collect", p |-> p, sent |-> 0]
    /\ UNCHANGED <<mRings, mSinks, mProduced, target, mDrains>>
    /\ UNCHANGED notMpscVars

\* consumer.drain(&mut sink)
MpscDrain ==
    /\ mDrains < MaxDrain
    /\ LET d == ConsumerDrain(mRings, cRings, target)
       IN  /\ mRings' = d.rings
           /\ target' = d.target
           /\ mCall' = [op |-> "drain", p |-> 0,
                        sent |-> Len(SinkItems(d.target)) - Len(SinkItems(target))]
    /\ mDrains' = mDrains + 1
    /\ UNCHANGED <<mSinks, mProduced, cRings>>
    /\ UNCHANGED notMpscVars

MpscNext ==
    \/ MpscPush
    \/ MpscCollect
    \/ MpscDrain

\* ------------------------------------------------- MPSC with a shared sink
\* Spout for Arc<Mutex<S>>: lock, then the call on the sink inside
MutexSinkSend(s, item) == SinkSend(s, item)

MutexSinkFlush(s) == SinkFlush(s)

\* the calls a ring made on its sink, applied under the lock in the order
\* they were made
RECURSIVE ApplyToMutexSink(_, _)
ApplyToMutexSink(evs, s) ==
    IF evs = <<>> THEN s
    ELSE ApplyToMutexSink(Tail(evs),
                          IF Head(evs).op = "send"
                          THEN MutexSinkSend(s, Head(evs).item)
                          ELSE MutexSinkFlush(s))

\* one turn of the loop of flush_unchecked inside Drop, or, when pop
\* returns None, the sink.flush() that ends Drop
DropStepLosesItem(r, s) ==
    IF Pop(r).ret.tag = "none"
    THEN [ring |-> r, sink |-> SinkFlush(s), done |-> TRUE]
    ELSE [ring |-> Pop(r).ring, sink |-> s, done |-> FALSE]

DropStep(r, s) ==
    IF Pop(r).ret.tag = "none"
    THEN [ring |-> r, sink |-> SinkFlush(s), done |-> TRUE]
    ELSE [ring |-> Pop(r).ring, sink |-> SinkSend(s, Pop(r).ret.val), done |-> FALSE]

\* let collected = Arc::new(Mutex::new(CollectSpout::new()));
\* let producers = MpscRing::with_sink(n, collected.clone());
SharedInit ==
    /\ hRings = [p \in Producers |->
                    [buffer |-> [i \in 0..(CapH - 1) |-> Uninit], head |-> 0, tail |-> 0]]
    /\ hShared = <<>>
    /\ hProduced = [p \in Producers |-> 0]
    /\ hState = [p \in Producers |-> "live"]
    /\ hCall = [op |-> "with_sink", p |-> 0]

\* producer.push(item) on producer p's thread
SharedPush ==
    /\ \E p \in Producers :
        /\ hState[p] = "live"
        /\ hProduced[p] < MaxSharedPush
        /\ LET r == Push(hRings[p], <<>>, ItemOf(p, hProduced[p] + 1))
           IN  /\ hRings' = [hRings EXCEPT ![p] = r.ring]
               /\ hShared' = ApplyToMutexSink(r.sink, hShared)
        /\ hProduced' = [hProduced EXCEPT ![p] = hProduced[p] + 1]
        /\ hCall' = [op |-> "push", p |-> p]
    /\ UNCHANGED hState
    /\ UNCHANGED notSharedVars

\* drop(producer) on producer p's thread, one call on the shared sink at a
\* time
SharedDropStep ==
    /\ \E p \in Producers :
        /\ hState[p] \in {"live", "dropping"}
        /\ LET d == DropStep(hRings[p], <<>>)
           IN  /\ hRings' = [hRings EXCEPT ![p] = d.ring]
               /\ hShared' = ApplyToMutexSink(d.sink, hShared)
               /\ hState' = [hState EXCEPT ![p] = IF d.done THEN "dropped" ELSE "dropping"]
        /\ hCall' = [op |-> "drop", p |-> p]
    /\ UNCHANGED hProduced
    /\ UNCHANGED notSharedVars

SharedNext ==
    \/ SharedPush
    \/ SharedDropStep

\* ------------------------------------------------ per-producer factory sink
\* CollectSink: send appends to the items; flush is the trait's default
CollectSend(items, item) == Append(items, item)

CollectFlush(items) == items

\* ProducerSink.inner: None, or Some(sink the factory made)
NoInner == [some |-> FALSE, items |-> <<>>]

\* ProducerSink::new(factory): inner None, producer_id 0, the counter at 0
ProducerSinkNew == [inner |-> NoInner, producer_id |-> 0]

\* ProducerSink::clone: id = next_id.fetch_add(1); inner None
ProducerSinkClone(next) ==
    [sink |-> [inner |-> NoInner, producer_id |-> next], next |-> next + 1]

\* ProducerSink::ensure_inner: the factory is called with this instance's
\* producer_id when there is no inner sink yet
EnsureInnerAlways(k, calls, inst) ==
    [sink |-> [k EXCEPT !.inner = [some |-> TRUE, items |-> k.inner.items]],
     calls |-> Append(calls, [id |-> k.producer_id, inst |-> inst])]

EnsureInner(k, calls, inst) ==
    IF k.inner.some THEN [sink |-> k, calls |-> calls]
    ELSE [sink |-> [k EXCEPT !.inner = [some |-> TRUE, items |-> <<>>]],
          calls |-> Append(calls, [id |-> k.producer_id, inst |-> inst])]

\* Sink for ProducerSink: send
ProducerSinkSend(k, calls, inst, item) ==
    LET e == EnsureInner(k, calls, inst)
    IN  [sink |-> [e.sink EXCEPT !.inner.items = CollectSend(e.sink.inner.items, item)],
         calls |-> e.calls, inner |-> "send"]

\* Sink for ProducerSink: flush goes to the inner sink if there is one
ProducerSinkFlushCreates(k, calls, inst) ==
    LET e == EnsureInner(k, calls, inst)
    IN  [sink |-> [e.sink EXCEPT !.inner.items = CollectFlush(e.sink.inner.items)],
         calls |-> e.calls, inner |-> "flush"]

ProducerSinkFlush(k, calls, inst) ==
    IF k.inner.some
    THEN [sink |-> [k EXCEPT !.inner.items = CollectFlush(k.inner.items)], calls |-> calls,
          inner |-> "flush"]
    ELSE [sink |-> k, calls |-> calls, inner |-> "none"]

\* let sink = ProducerSink::new(|id| CollectSink::new());
FactoryInit ==
    /\ kNextId = 0
    /\ kSinks = <<ProducerSinkNew>>
    /\ kFactory = <<>>
    /\ kSent = 0
    /\ kCall = [op |-> "new", inst |-> 1, inner |-> "none"]

\* src.clone(), src the root or a clone, on any thread: fetch_add is atomic
FactoryClone ==
    /\ Len(kSinks) <= MaxClones
    /\ \E src \in 1..Len(kSinks) :
        LET c == ProducerSinkClone(kNextId)
        IN  /\ kSinks' = Append(kSinks, c.sink)
            /\ kNextId' = c.next
            /\ kCall' = [op |-> "clone", inst |-> src, inner |-> "none"]
    /\ UNCHANGED <<kFactory, kSent>>
    /\ UNCHANGED notFactoryVars

\* inst.send(item)
FactorySend ==
    /\ kSent < MaxFactorySend
    /\ \E inst \in 1..Len(kSinks) :
        LET r == ProducerSinkSend(kSinks[inst], kFactory, inst, kSent + 1)
        IN  /\ kSinks' = [kSinks EXCEPT ![inst] = r.sink]
            /\ kFactory' = r.calls
            /\ kCall' = [op |-> "send", inst |-> inst, inner |-> r.inner]
    /\ kSent' = kSent + 1
    /\ UNCHANGED kNextId
    /\ UNCHANGED notFactoryVars

\* inst.flush()
FactoryFlush ==
    /\ \E inst \in 1..Len(kSinks) :
        LET r == ProducerSinkFlush(kSinks[inst], kFactory, inst)
        IN  /\ kSinks' = [kSinks EXCEPT ![inst] = r.sink]
            /\ kFactory' = r.calls
            /\ kCall' = [op |-> "flush", inst |-> inst, inner |-> r.inner]
    /\ UNCHANGED <<kNextId, kSent>>
    /\ UNCHANGED notFactoryVars

FactoryNext ==
    \/ FactoryClone
    \/ FactorySend
    \/ FactoryFlush

notVariantVars == <<ringVars, chainVars, spscVars, mpscVars, sharedVars, factoryVars,
    batchVars, poolVars, chanVars, readVars, ctorVars, workVars>>

notPoolVars == <<ringVars, chainVars, spscVars, mpscVars, sharedVars, factoryVars,
    batchVars, variantVars, chanVars, readVars, ctorVars, workVars>>

notChanVars == <<ringVars, chainVars, spscVars, mpscVars, sharedVars, factoryVars,
    batchVars, variantVars, poolVars, readVars, ctorVars, workVars>>

notReadVars == <<ringVars, chainVars, spscVars, mpscVars, sharedVars, factoryVars, batchVars, variantVars, poolVars, chanVars, ctorVars, workVars>>

notCtorVars == <<ringVars, chainVars, spscVars, mpscVars, sharedVars, factoryVars, batchVars, variantVars, poolVars, chanVars, readVars, workVars>>

notWorkVars == <<ringVars, chainVars, spscVars, mpscVars, sharedVars, factoryVars, batchVars, variantVars, poolVars, chanVars, readVars, ctorVars>>

\* ------------------------------------------------ batching, reducing sink
RECURSIVE SeqSum(_)
SeqSum(seq) == IF seq = <<>> THEN 0 ELSE Head(seq) + SeqSum(Tail(seq))

\* the reduction the caller passes to the reducing sink: here the sum and
\* the length of the batch
Reduction(batch) == [sum |-> SeqSum(batch), len |-> Len(batch)]

\* BatchSink::new(threshold, inner)
BatchNew(threshold) == [threshold |-> threshold, buffer |-> <<>>, inner |-> <<>>]

\* BatchSink::send: buffer the item; at the threshold forward the buffer as
\* one batch and start an empty one
BatchSendLate(b, item) ==
    IF Len(b.buffer) >= b.threshold
    THEN [b EXCEPT !.buffer = <<>>, !.inner = CollectSend(b.inner, Append(b.buffer, item))]
    ELSE [b EXCEPT !.buffer = Append(b.buffer, item)]

BatchSend(b, item) ==
    IF Len(b.buffer) + 1 >= b.threshold
    THEN [b EXCEPT !.buffer = <<>>, !.inner = CollectSend(b.inner, Append(b.buffer, item))]
    ELSE [b EXCEPT !.buffer = Append(b.buffer, item)]

\* BatchSink::flush: forward the partial batch, if there is one
BatchFlush(b) ==
    IF b.buffer = <<>> THEN b
    ELSE [b EXCEPT !.buffer = <<>>, !.inner = CollectSend(b.inner, b.buffer)]

\* ReduceSink::send: as BatchSink::send, forwarding the reduced batch
ReduceSend(b, item) ==
    IF Len(b.buffer) + 1 >= b.threshold
    THEN [b EXCEPT !.buffer = <<>>,
                   !.inner = CollectSend(b.inner, Reduction(Append(b.buffer, item)))]
    ELSE [b EXCEPT !.buffer = Append(b.buffer, item)]

\* ReduceSink::flush: forward the reduced partial batch, if there is one
ReduceFlushUnreduced(b) ==
    IF b.buffer = <<>> THEN b
    ELSE [b EXCEPT !.buffer = <<>>,
                   !.inner = CollectSend(b.inner, [sum |-> Head(b.buffer), len |-> 1])]

ReduceFlush(b) ==
    IF b.buffer = <<>> THEN b
    ELSE [b EXCEPT !.buffer = <<>>, !.inner = CollectSend(b.inner, Reduction(b.buffer))]

BatchInit ==
    /\ bKind = "unset"
    /\ bSink = BatchNew(1)
    /\ bSent = 0
    /\ bFlushes = 0
    /\ bCall = [op |-> "none", forwarded |-> 0]

\* BatchSink::new(threshold, CollectSink::new()) or
\* ReduceSink::new(threshold, f, CollectSink::new())
BatchDoNew ==
    /\ bKind = "unset"
    /\ \E kind \in {"batch", "reduce"} : bKind' = kind
    /\ \E threshold \in 1..MaxThreshold : bSink' = BatchNew(threshold)
    /\ bCall' = [op |-> "new", forwarded |-> 0]
    /\ UNCHANGED <<bSent, bFlushes>>
    /\ UNCHANGED notBatchVars

\* sink.send(item)
BatchDoSend ==
    /\ bKind \in {"batch", "reduce"}
    /\ bSent < MaxBatchSend
    /\ bSink' = IF bKind = "batch" THEN BatchSend(bSink, bSent + 1)
                ELSE ReduceSend(bSink, bSent + 1)
    /\ bSent' = bSent + 1
    /\ bCall' = [op |-> "send", forwarded |-> Len(bSink'.inner) - Len(bSink.inner)]
    /\ UNCHANGED <<bKind, bFlushes>>
    /\ UNCHANGED notBatchVars

\* sink.flush()
BatchDoFlush ==
    /\ bKind \in {"batch", "reduce"}
    /\ bFlushes < MaxBatchFlush
    /\ bSink' = IF bKind = "batch" THEN BatchFlush(bSink) ELSE ReduceFlush(bSink)
    /\ bFlushes' = bFlushes + 1
    /\ bCall' = [op |-> "flush", forwarded |-> Len(bSink'.inner) - Len(bSink.inner)]
    /\ UNCHANGED <<bKind, bSent>>
    /\ UNCHANGED notBatchVars

BatchNext ==
    \/ BatchDoNew
    \/ BatchDoSend
    \/ BatchDoFlush

\* ----------------------------------------------------------- sink variants
Variants == {"discard", "collect", "fn", "fnflush", "batch", "reduce", "channel",
             "producer"}

\* Sink::flush, the trait's default: nothing
DefaultFlush(s) == s

\* DropSink::send: the item is dropped
DropSinkSend(s, item) == s

\* FnSink::send: (self.0)(item)
FnSinkSend(cbs, item) == Append(cbs, [cb |-> "send", item |-> item])

\* FnFlushSink::send: (self.send)(item)
FnFlushSinkSend(cbs, item) == Append(cbs, [cb |-> "send", item |-> item])

\* FnFlushSink::flush: self.flush.flush(), the flush closure is called
FnFlushSinkFlush(cbs) == Append(cbs, [cb |-> "flush", item |-> 0])

\* ChannelSink::send: let _ = self.sender.send(item); a send on a channel
\* whose receiver is gone fails and the failure is ignored. The field
\* escaped records a failure that reaches the caller
ChannelSinkSendUnwrap(ch, item) ==
    IF ch.connected THEN [ch EXCEPT !.queue = Append(ch.queue, item)]
    ELSE [ch EXCEPT !.escaped = TRUE]

ChannelSinkSend(ch, item) ==
    IF ch.connected THEN [ch EXCEPT !.queue = Append(ch.queue, item)] ELSE ch

\* let (tx, rx) = mpsc::channel(); ChannelSink::new(tx)
ChannelNew == [connected |-> TRUE, queue |-> <<>>, escaped |-> FALSE]

VariantNew(threshold) ==
    [batch |-> BatchNew(threshold), items |-> <<>>, chan |-> ChannelNew,
     prod |-> ProducerSinkNew, calls |-> <<>>]

VariantInit ==
    /\ vKind = "unset"
    /\ vSink = VariantNew(1)
    /\ vCallbacks = <<>>
    /\ vSent = 0
    /\ vFlushes = 0
    /\ vCall = [op |-> "none", prev |-> "none"]

\* the constructor of one variant
VariantStart ==
    /\ vKind = "unset"
    /\ \E kind \in Variants : vKind' = kind
    /\ vSink' = VariantNew(2)
    /\ vCall' = [op |-> "new", prev |-> vCall.op]
    /\ UNCHANGED <<vCallbacks, vSent, vFlushes>>
    /\ UNCHANGED notVariantVars

\* sink.send(item)
VariantSend ==
    /\ vKind \in Variants
    /\ vSent < MaxVariantSend
    /\ LET item == vSent + 1
           p == ProducerSinkSend(vSink.prod, vSink.calls, 1, item)
       IN  /\ vSink' =
                CASE vKind = "discard" -> DropSinkSend(vSink, item)
                  [] vKind = "collect" ->
                        [vSink EXCEPT !.items = CollectSend(vSink.items, item)]
                  [] vKind = "batch" ->
                        [vSink EXCEPT !.batch = BatchSend(vSink.batch, item)]
                  [] vKind = "reduce" ->
                        [vSink EXCEPT !.batch = ReduceSend(vSink.batch, item)]
                  [] vKind = "channel" ->
                        [vSink EXCEPT !.chan = ChannelSinkSend(vSink.chan, item)]
                  [] vKind = "producer" ->
                        [vSink EXCEPT !.prod = p.sink, !.calls = p.calls]
                  [] OTHER -> vSink
           /\ vCallbacks' =
                CASE vKind = "fn" -> FnSinkSend(vCallbacks, item)
                  [] vKind = "fnflush" -> FnFlushSinkSend(vCallbacks, item)
                  [] OTHER -> vCallbacks
    /\ vSent' = vSent + 1
    /\ vCall' = [op |-> "send", prev |-> vCall.op]
    /\ UNCHANGED <<vKind, vFlushes>>
    /\ UNCHANGED notVariantVars

\* sink.flush()
VariantFlush ==
    /\ vKind \in Variants
    /\ vFlushes < MaxVariantFlush
    /\ LET p == ProducerSinkFlush(vSink.prod, vSink.calls, 1)
       IN  /\ vSink' =
                CASE vKind = "collect" ->
                        [vSink EXCEPT !.items = CollectFlush(vSink.items)]
                  [] vKind = "batch" ->
                        [vSink EXCEPT !.batch = BatchFlush(vSink.batch)]
                  [] vKind = "reduce" ->
                        [vSink EXCEPT !.batch = ReduceFlush(vSink.batch)]
                  [] vKind = "producer" ->
                        [vSink EXCEPT !.prod = p.sink, !.calls = p.calls]
                  [] OTHER -> DefaultFlush(vSink)
           /\ vCallbacks' =
                CASE vKind = "fnflush" -> FnFlushSinkFlush(vCallbacks)
                  [] OTHER -> DefaultFlush(vCallbacks)
    /\ vFlushes' = vFlushes + 1
    /\ vCall' = [op |-> "flush", prev |-> vCall.op]
    /\ UNCHANGED <<vKind, vSent>>
    /\ UNCHANGED notVariantVars

VariantNext ==
    \/ VariantStart
    \/ VariantSend
    \/ VariantFlush

\* ------------------------------------------------------------- worker pool
Workers == 1..NumWorkers

\* Barrier::new(num_workers + 1): the workers and the calling thread
PartiesWorkersOnly == NumWorkers

Parties == NumWorkers + 1

\* Barrier::wait, the arrival: the last of the parties to arrive starts a
\* new generation of the barrier and passes; the others wait for that
BarrierArrive(b) ==
    IF b.count + 1 < Parties
    THEN [barrier |-> [b EXCEPT !.count = b.count + 1], passes |-> FALSE]
    ELSE [barrier |-> [count |-> 0, generation |-> b.generation + 1], passes |-> TRUE]

\* ring.push(MaybeUninit::uninit().assume_init_read()): the value pushed is
\* indeterminate and nothing reads it; in its place the ring of the model
\* carries the identity of the push
WorkerPushDrops(r, s, w, k) == [ring |-> r, sink |-> s]

WorkerPush(r, s, w, k) ==
    LET q == Push(r, s, ItemOf(w, k)) IN [ring |-> q.ring, sink |-> q.sink]

\* self.cmd_txs.clear(): every sender is dropped
ClearTxsKeeps(open) == open

ClearTxs(open) == FALSE

\* Consumer::add_ring
AddRingFront(rings, w) == <<w>> \o rings

AddRing(rings, w) == Append(rings, w)

\* WorkerPool::with_sink(num_workers, sink) has returned: every worker has
\* made its ring with a clone of the sink, warmed it, passed the ready
\* barrier and is at rx.recv()
PoolInit ==
    /\ wPc = [w \in Workers |-> "recv"]
    /\ wLeft = [w \in Workers |-> 0]
    /\ wSeen = [w \in Workers |-> 0]
    /\ wGhost = [w \in Workers |-> [recv |-> 0, arrived |-> 0, started |-> 0, finished |-> 0]]
    /\ cmdQ = [w \in Workers |-> <<>>]
    /\ txOpen = TRUE
    /\ startB = [count |-> 0, generation |-> 0]
    /\ doneB = [count |-> 0, generation |-> 0]
    /\ pRings = [w \in Workers |->
                    [buffer |-> [i \in 0..(N - 1) |-> Uninit], head |-> 0, tail |-> 0]]
    /\ pSinks = [w \in Workers |-> <<>>]
    /\ pPushed = [w \in Workers |-> 0]
    /\ mPc = "idle"
    /\ mOp = "none"
    /\ mIdx = 0
    /\ mCount = 0
    /\ mSeen = 0
    /\ mGhost = [runs |-> 0, returned |-> 0, total |-> 0, counts |-> <<>>]
    /\ pConsumer = <<>>
    /\ pTarget = <<>>

workerLocal == <<wPc, wLeft, wSeen, wGhost>>
mainLocal == <<mPc, mOp, mIdx, mCount, mSeen, mGhost>>
poolData == <<pRings, pSinks, pPushed>>

\* while let Ok(count) = rx.recv(): a command arrives
WorkerRecv(w) ==
    /\ wPc[w] = "recv"
    /\ cmdQ[w] /= <<>>
    /\ wLeft' = [wLeft EXCEPT ![w] = Head(cmdQ[w])]
    /\ cmdQ' = [cmdQ EXCEPT ![w] = Tail(cmdQ[w])]
    /\ wPc' = [wPc EXCEPT ![w] = "start"]
    /\ wGhost' = [wGhost EXCEPT ![w].recv = @ + 1]
    /\ UNCHANGED <<wSeen, txOpen, startB, doneB, poolData, mainLocal, pConsumer, pTarget>>
    /\ UNCHANGED notPoolVars

\* rx.recv() returns Err: the channel is empty and its sender is gone; the
\* loop ends and the closure returns the ring
WorkerExit(w) ==
    /\ wPc[w] = "recv"
    /\ cmdQ[w] = <<>>
    /\ ~txOpen
    /\ wPc' = [wPc EXCEPT ![w] = "exited"]
    /\ UNCHANGED <<wLeft, wSeen, wGhost, cmdQ, txOpen, startB, doneB, poolData, mainLocal,
                   pConsumer, pTarget>>
    /\ UNCHANGED notPoolVars

\* where the worker goes when it has passed the start barrier
AfterStartSkips(w) == "done"

AfterStart(w) == IF wLeft[w] = 0 THEN "done" ELSE "work"

\* start.wait(): the worker arrives
WorkerStartArrive(w) ==
    /\ wPc[w] = "start"
    /\ LET a == BarrierArrive(startB)
       IN  /\ startB' = a.barrier
           /\ wPc' = [wPc EXCEPT ![w] = IF a.passes THEN AfterStart(w) ELSE "start_blocked"]
           /\ wGhost' = [wGhost EXCEPT ![w].arrived = @ + 1,
                                       ![w].started = IF a.passes THEN @ + 1 ELSE @]
    /\ wSeen' = [wSeen EXCEPT ![w] = startB.generation]
    /\ UNCHANGED <<wLeft, cmdQ, txOpen, doneB, poolData, mainLocal, pConsumer, pTarget>>
    /\ UNCHANGED notPoolVars

\* start.wait(): the generation of the barrier has ended, the worker passes
WorkerStartPass(w) ==
    /\ wPc[w] = "start_blocked"
    /\ startB.generation /= wSeen[w]
    /\ wPc' = [wPc EXCEPT ![w] = AfterStart(w)]
    /\ wGhost' = [wGhost EXCEPT ![w].started = @ + 1]
    /\ UNCHANGED <<wLeft, wSeen, cmdQ, txOpen, startB, doneB, poolData, mainLocal,
                   pConsumer, pTarget>>
    /\ UNCHANGED notPoolVars

\* one turn of for _ in 0..count { ring.push(..) }
WorkerWork(w) ==
    /\ wPc[w] = "work"
    /\ LET q == WorkerPush(pRings[w], pSinks[w], w, pPushed[w] + 1)
       IN  /\ pRings' = [pRings EXCEPT ![w] = q.ring]
           /\ pSinks' = [pSinks EXCEPT ![w] = q.sink]
    /\ pPushed' = [pPushed EXCEPT ![w] = @ + 1]
    /\ wLeft' = [wLeft EXCEPT ![w] = @ - 1]
    /\ wPc' = [wPc EXCEPT ![w] = IF wLeft[w] = 1 THEN "done" ELSE "work"]
    /\ UNCHANGED <<wSeen, wGhost, cmdQ, txOpen, startB, doneB, mainLocal, pConsumer, pTarget>>
    /\ UNCHANGED notPoolVars

\* done.wait(): the worker arrives
WorkerDoneArrive(w) ==
    /\ wPc[w] = "done"
    /\ LET a == BarrierArrive(doneB)
       IN  /\ doneB' = a.barrier
           /\ wPc' = [wPc EXCEPT ![w] = IF a.passes THEN "recv" ELSE "done_blocked"]
    /\ wGhost' = [wGhost EXCEPT ![w].finished = @ + 1]
    /\ wSeen' = [wSeen EXCEPT ![w] = doneB.generation]
    /\ UNCHANGED <<wLeft, cmdQ, txOpen, startB, poolData, mainLocal, pConsumer, pTarget>>
    /\ UNCHANGED notPoolVars

\* done.wait(): the generation of the barrier has ended, the worker passes
WorkerDonePass(w) ==
    /\ wPc[w] = "done_blocked"
    /\ doneB.generation /= wSeen[w]
    /\ wPc' = [wPc EXCEPT ![w] = "recv"]
    /\ UNCHANGED <<wLeft, wSeen, wGhost, cmdQ, txOpen, startB, doneB, poolData, mainLocal,
                   pConsumer, pTarget>>
    /\ UNCHANGED notPoolVars

\* the thread of worker w
PoolWorker(w) ==
    \/ WorkerRecv(w)
    \/ WorkerExit(w)
    \/ WorkerStartArrive(w)
    \/ WorkerStartPass(w)
    \/ WorkerWork(w)
    \/ WorkerDoneArrive(w)
    \/ WorkerDonePass(w)

\* pool.run(count) is called
PoolCallRun ==
    /\ mPc = "idle"
    /\ mGhost.runs < MaxRuns
    /\ \E count \in 0..MaxCount :
        /\ mCount' = count
        /\ mGhost' = [mGhost EXCEPT !.runs = @ + 1, !.total = @ + count,
                                    !.counts = Append(@, count)]
    /\ mPc' = "send"
    /\ mOp' = "run"
    /\ mIdx' = 1
    /\ UNCHANGED <<workerLocal, cmdQ, txOpen, startB, doneB, poolData, mSeen, pConsumer,
                   pTarget>>
    /\ UNCHANGED notPoolVars

\* pool.into_consumer() is called, or the pool is dropped
PoolCallShutdown ==
    /\ mPc = "idle"
    /\ \E op \in {"into_consumer", "drop"} : mOp' = op
    /\ mPc' = "clear"
    /\ UNCHANGED <<workerLocal, cmdQ, txOpen, startB, doneB, poolData, mIdx, mCount, mSeen,
                   mGhost, pConsumer, pTarget>>
    /\ UNCHANGED notPoolVars

\* run: one turn of for tx in &self.cmd_txs { let _ = tx.send(count); }
MainSend ==
    /\ mPc = "send"
    /\ cmdQ' = [cmdQ EXCEPT ![mIdx] = Append(@, mCount)]
    /\ mIdx' = mIdx + 1
    /\ mPc' = IF mIdx = NumWorkers THEN "start" ELSE "send"
    /\ UNCHANGED <<workerLocal, txOpen, startB, doneB, poolData, mOp, mCount, mSeen, mGhost,
                   pConsumer, pTarget>>
    /\ UNCHANGED notPoolVars

\* run: self.start_barrier.wait(), the arrival
MainStartArrive ==
    /\ mPc = "start"
    /\ LET a == BarrierArrive(startB)
       IN  /\ startB' = a.barrier
           /\ mPc' = IF a.passes THEN "done" ELSE "start_blocked"
    /\ mSeen' = startB.generation
    /\ UNCHANGED <<workerLocal, cmdQ, txOpen, doneB, poolData, mOp, mIdx, mCount, mGhost,
                   pConsumer, pTarget>>
    /\ UNCHANGED notPoolVars

\* run: self.start_barrier.wait() passes
MainStartPass ==
    /\ mPc = "start_blocked"
    /\ startB.generation /= mSeen
    /\ mPc' = "done"
    /\ UNCHANGED <<workerLocal, cmdQ, txOpen, startB, doneB, poolData, mOp, mIdx, mCount,
                   mSeen, mGhost, pConsumer, pTarget>>
    /\ UNCHANGED notPoolVars

\* run: self.done_barrier.wait(), the arrival; when it passes run returns
MainDoneArrive ==
    /\ mPc = "done"
    /\ LET a == BarrierArrive(doneB)
       IN  /\ doneB' = a.barrier
           /\ mPc' = IF a.passes THEN "idle" ELSE "done_blocked"
           /\ mOp' = IF a.passes THEN "none" ELSE mOp
           /\ mGhost' = [mGhost EXCEPT !.returned = IF a.passes THEN @ + 1 ELSE @]
    /\ mSeen' = doneB.generation
    /\ UNCHANGED <<workerLocal, cmdQ, txOpen, startB, poolData, mIdx, mCount, pConsumer,
                   pTarget>>
    /\ UNCHANGED notPoolVars

\* run: self.done_barrier.wait() passes and run returns
MainDonePass ==
    /\ mPc = "done_blocked"
    /\ doneB.generation /= mSeen
    /\ mPc' = "idle"
    /\ mOp' = "none"
    /\ mGhost' = [mGhost EXCEPT !.returned = @ + 1]
    /\ UNCHANGED <<workerLocal, cmdQ, txOpen, startB, doneB, poolData, mIdx, mCount, mSeen,
                   pConsumer, pTarget>>
    /\ UNCHANGED notPoolVars

\* into_consumer and drop: self.cmd_txs.clear()
MainClear ==
    /\ mPc = "clear"
    /\ txOpen' = ClearTxs(txOpen)
    /\ mPc' = "join"
    /\ mIdx' = 1
    /\ UNCHANGED <<workerLocal, cmdQ, startB, doneB, poolData, mOp, mCount, mSeen, mGhost,
                   pConsumer, pTarget>>
    /\ UNCHANGED notPoolVars

\* into_consumer: consumer.add_ring(h.join().unwrap()); drop: let _ =
\* h.join(), which drops the ring the thread returned (Drop for SpillRing:
\* the items left go to its sink, which is then flushed). After the last handle
\* into_consumer returns the Consumer (the drop of self that follows finds
\* no sender and no handle)
MainJoin ==
    /\ mPc = "join"
    /\ wPc[mIdx] = "exited"
    /\ wPc' = [wPc EXCEPT ![mIdx] = "joined"]
    /\ IF mOp = "into_consumer"
       THEN /\ pConsumer' = AddRing(pConsumer, mIdx)
            /\ UNCHANGED <<pRings, pSinks>>
       ELSE LET d == DropRing(pRings[mIdx], pSinks[mIdx])
            IN  /\ pRings' = [pRings EXCEPT ![mIdx] = d.ring]
                /\ pSinks' = [pSinks EXCEPT ![mIdx] = d.sink]
            /\ UNCHANGED pConsumer
    /\ mIdx' = mIdx + 1
    /\ mPc' = IF mIdx < NumWorkers THEN "join"
              ELSE IF mOp = "into_consumer" THEN "consumer" ELSE "dropped"
    /\ UNCHANGED <<wLeft, wSeen, wGhost, cmdQ, txOpen, startB, doneB, pPushed, mOp, mCount,
                   mSeen, mGhost, pTarget>>
    /\ UNCHANGED notPoolVars

\* consumer.drain(&mut sink) on the Consumer that into_consumer returned
PoolDrain ==
    /\ mPc = "consumer"
    /\ LET d == ConsumerDrain(pRings, pConsumer, pTarget)
       IN  /\ pRings' = d.rings
           /\ pTarget' = d.target
    /\ mPc' = "drained"
    /\ UNCHANGED <<workerLocal, cmdQ, txOpen, startB, doneB, pSinks, pPushed, mOp, mIdx,
                   mCount, mSeen, mGhost, pConsumer>>
    /\ UNCHANGED notPoolVars

\* the steps of the calling thread inside a call
PoolMain ==
    \/ MainSend
    \/ MainStartArrive
    \/ MainStartPass
    \/ MainDoneArrive
    \/ MainDonePass
    \/ MainClear
    \/ MainJoin

\* pool.send(count) is called
PoolCallSend ==
    /\ mPc = "idle"
    /\ mGhost.runs < MaxRuns
    /\ \E count \in 0..MaxCount :
        /\ mCount' = count
        /\ mGhost' = [mGhost EXCEPT !.runs = @ + 1, !.counts = Append(@, count)]
    /\ mPc' = "api_send"
    /\ mOp' = "send"
    /\ mIdx' = 1
    /\ UNCHANGED <<workerLocal, cmdQ, txOpen, startB, doneB, poolData, mSeen, pConsumer,
                   pTarget>>
    /\ UNCHANGED notPoolVars

\* send: one turn of for tx in &self.cmd_txs { let _ = tx.send(count); };
\* after the last turn send returns
ApiSend ==
    /\ mPc = "api_send"
    /\ cmdQ' = [cmdQ EXCEPT ![mIdx] = Append(@, mCount)]
    /\ mIdx' = mIdx + 1
    /\ mPc' = IF mIdx = NumWorkers THEN "idle" ELSE "api_send"
    /\ mOp' = IF mIdx = NumWorkers THEN "none" ELSE mOp
    /\ UNCHANGED <<workerLocal, txOpen, startB, doneB, poolData, mCount, mSeen, mGhost,
                   pConsumer, pTarget>>
    /\ UNCHANGED notPoolVars

\* pool.wait_start() is called: self.start_barrier.wait(), the arrival
PoolCallWaitStart ==
    /\ mPc = "idle"
    /\ LET a == BarrierArrive(startB)
       IN  /\ startB' = a.barrier
           /\ mPc' = IF a.passes THEN "idle" ELSE "api_start_blocked"
           /\ mOp' = IF a.passes THEN "none" ELSE "wait_start"
    /\ mSeen' = startB.generation
    /\ UNCHANGED <<workerLocal, cmdQ, txOpen, doneB, poolData, mIdx, mCount, mGhost,
                   pConsumer, pTarget>>
    /\ UNCHANGED notPoolVars

\* wait_start: self.start_barrier.wait() passes and wait_start returns
ApiStartPass ==
    /\ mPc = "api_start_blocked"
    /\ startB.generation /= mSeen
    /\ mPc' = "idle"
    /\ mOp' = "none"
    /\ UNCHANGED <<workerLocal, cmdQ, txOpen, startB, doneB, poolData, mIdx, mCount,
                   mSeen, mGhost, pConsumer, pTarget>>
    /\ UNCHANGED notPoolVars

\* pool.wait_done() is called: self.done_barrier.wait(), the arrival
PoolCallWaitDone ==
    /\ mPc = "idle"
    /\ LET a == BarrierArrive(doneB)
       IN  /\ doneB' = a.barrier
           /\ mPc' = IF a.passes THEN "idle" ELSE "api_done_blocked"
           /\ mOp' = IF a.passes THEN "none" ELSE "wait_done"
    /\ mSeen' = doneB.generation
    /\ UNCHANGED <<workerLocal, cmdQ, txOpen, startB, poolData, mIdx, mCount, mGhost,
                   pConsumer, pTarget>>
    /\ UNCHANGED notPoolVars

\* wait_done: self.done_barrier.wait() passes and wait_done returns
ApiDonePass ==
    /\ mPc = "api_done_blocked"
    /\ doneB.generation /= mSeen
    /\ mPc' = "idle"
    /\ mOp' = "none"
    /\ UNCHANGED <<workerLocal, cmdQ, txOpen, startB, doneB, poolData, mIdx, mCount,
                   mSeen, mGhost, pConsumer, pTarget>>
    /\ UNCHANGED notPoolVars

\* the steps of the calling thread inside send, wait_start and wait_done
PoolApiMain ==
    \/ ApiSend
    \/ ApiStartPass
    \/ ApiDonePass

PoolNext ==
    \/ PoolCallRun
    \/ PoolCallShutdown
    \/ PoolDrain
    \/ PoolMain
    \/ \E w \in Workers : PoolWorker(w)

\* the pool driven through run and through send, wait_start and wait_done
PoolApiNext ==
    \/ PoolNext
    \/ PoolCallSend
    \/ PoolCallWaitStart
    \/ PoolCallWaitDone
    \/ PoolApiMain

\* ------------------------------------------------ ring with a channel sink
\* the calls a ring made on its sink, applied to the channel sink in the
\* order they were made
RECURSIVE ApplyToChannelSink(_, _)
ApplyToChannelSink(evs, ch) ==
    IF evs = <<>> THEN ch
    ELSE ApplyToChannelSink(Tail(evs),
                            IF Head(evs).op = "send"
                            THEN ChannelSinkSend(ch, Head(evs).item)
                            ELSE DefaultFlush(ch))

\* let (tx, rx) = mpsc::channel();
\* let ring = SpillRing::with_sink(ChannelSink::new(tx));
ChanInit ==
    /\ xRing = [buffer |-> [i \in 0..(N - 1) |-> Uninit], head |-> 0, tail |-> 0]
    /\ xChan = ChannelNew
    /\ xReceived = <<>>
    /\ xPushed = 0
    /\ xCall = [op |-> "with_sink", ret |-> Unit]

\* ring.push(item)
ChanPush ==
    /\ xPushed < MaxChanPush
    /\ LET q == Push(xRing, <<>>, xPushed + 1)
       IN  /\ xRing' = q.ring
           /\ xChan' = ApplyToChannelSink(q.sink, xChan)
    /\ xPushed' = xPushed + 1
    /\ xCall' = [op |-> "push", ret |-> Unit]
    /\ UNCHANGED xReceived
    /\ UNCHANGED notChanVars

\* ring.flush()
ChanFlush ==
    /\ ~IsEmpty(xRing)
    /\ LET f == Flush(xRing, <<>>)
       IN  /\ xRing' = f.ring
           /\ xChan' = ApplyToChannelSink(f.sink, xChan)
           /\ xCall' = [op |-> "flush", ret |-> Count(f.count)]
    /\ UNCHANGED <<xReceived, xPushed>>
    /\ UNCHANGED notChanVars

\* rx.try_recv() returns Ok(item)
ChanRecv ==
    /\ xChan.connected
    /\ xChan.queue /= <<>>
    /\ xReceived' = Append(xReceived, Head(xChan.queue))
    /\ xChan' = [xChan EXCEPT !.queue = Tail(xChan.queue)]
    /\ xCall' = [op |-> "try_recv", ret |-> Some(Head(xChan.queue))]
    /\ UNCHANGED <<xRing, xPushed>>
    /\ UNCHANGED notChanVars

\* drop(rx): the receiver is gone, and with it what the channel still held
ChanDisconnect ==
    /\ xChan.connected
    /\ xChan' = [xChan EXCEPT !.connected = FALSE, !.queue = <<>>]
    /\ xCall' = [op |-> "drop_rx", ret |-> Unit]
    /\ UNCHANGED <<xRing, xReceived, xPushed>>
    /\ UNCHANGED notChanVars

ChanNext ==
    \/ ChanPush
    \/ ChanFlush
    \/ ChanRecv
    \/ ChanDisconnect

\* ---------------------------------------------------------- read accessors
\* SpillRing::peek
Peek(r) ==
    IF r.head = r.tail THEN None
    ELSE Some(r.buffer[r.head % Capacity(r)])

\* SpillRing::peek_back
PeekBackAtTail(r) ==
    IF r.head = r.tail THEN None
    ELSE Some(r.buffer[r.tail % Capacity(r)])

PeekBack(r) ==
    IF r.head = r.tail THEN None
    ELSE Some(r.buffer[WrappingSub(r.tail, 1) % Capacity(r)])

\* SpillRing::with_sink(sink)
ReadInit ==
    /\ aRing = [buffer |-> [i \in 0..(N - 1) |-> Uninit], head |-> 0, tail |-> 0]
    /\ aSink = <<>>
    /\ aLive = <<>>
    /\ aPushed = 0
    /\ aCall = [op |-> "with_sink", arg |-> 0, ret |-> Unit]

\* ring.push(item)
ReadPush ==
    /\ aPushed < MaxReadPush
    /\ LET q == Push(aRing, aSink, aPushed + 1)
       IN  /\ aRing' = q.ring
           /\ aSink' = q.sink
    /\ aLive' = Append(IF Len(aLive) = N THEN Tail(aLive) ELSE aLive, aPushed + 1)
    /\ aPushed' = aPushed + 1
    /\ aCall' = [op |-> "push", arg |-> aPushed + 1, ret |-> Unit]
    /\ UNCHANGED notReadVars

\* ring.pop()
ReadPop ==
    /\ aRing' = Pop(aRing).ring
    /\ aLive' = IF aLive = <<>> THEN aLive ELSE Tail(aLive)
    /\ aCall' = [op |-> "pop", arg |-> 0, ret |-> Pop(aRing).ret]
    /\ UNCHANGED <<aSink, aPushed>>
    /\ UNCHANGED notReadVars

\* ring.peek(): &self, a value is returned and nothing is stored
ReadPeek ==
    /\ aCall' = [op |-> "peek", arg |-> 0, ret |-> Peek(aRing)]
    /\ UNCHANGED <<aRing, aSink, aLive, aPushed>>
    /\ UNCHANGED notReadVars

\* ring.peek_back()
ReadPeekBack ==
    /\ aCall' = [op |-> "peek_back", arg |-> 0, ret |-> PeekBack(aRing)]
    /\ UNCHANGED <<aRing, aSink, aLive, aPushed>>
    /\ UNCHANGED notReadVars

\* ring.get(index)
ReadGet ==
    /\ \E index \in 0..N :
        aCall' = [op |-> "get", arg |-> index, ret |-> Get(aRing, index)]
    /\ UNCHANGED <<aRing, aSink, aLive, aPushed>>
    /\ UNCHANGED notReadVars

ReadNext ==
    \/ ReadPush
    \/ ReadPop
    \/ ReadPeek
    \/ ReadPeekBack
    \/ ReadGet

\* ------------------------------------------------------ pool construction
NewWorkers == 1..MaxNewWorkers

\* Barrier::wait on a barrier of `parties` parties, the arrival
ArriveAlwaysPasses(b, parties) == [barrier |-> b, passes |-> TRUE]

ArriveOf(b, parties) ==
    IF b.count + 1 < parties
    THEN [barrier |-> [b EXCEPT !.count = b.count + 1], passes |-> FALSE]
    ELSE [barrier |-> [count |-> 0, generation |-> b.generation + 1], passes |-> TRUE]

\* before WorkerPool::with_sink is called
CtorInit ==
    /\ newNum = -1
    /\ newPc = "idle"
    /\ newSpawned = 0
    /\ newSeen = 0
    /\ readyB = [count |-> 0, generation |-> 0]
    /\ tPc = [w \in NewWorkers |-> "unspawned"]
    /\ tRing = [w \in NewWorkers |-> [built |-> FALSE, touched |-> {}, head |-> -1, tail |-> -1]]
    /\ tI = [w \in NewWorkers |-> 0]
    /\ tSeen = [w \in NewWorkers |-> 0]

newLocal == <<newNum, newPc, newSpawned, newSeen>>
threadLocal == <<tPc, tRing, tI, tSeen>>

\* WorkerPool::with_sink(num_workers, sink) is called: assert!(num_workers >
\* 0) panics, or the barriers and the channels are made
CtorCall ==
    /\ newPc = "idle"
    /\ \E num_workers \in 0..MaxNewWorkers :
        /\ newNum' = num_workers
        /\ newPc' = IF num_workers > 0 THEN "spawn" ELSE "panicked"
    /\ UNCHANGED <<newSpawned, newSeen, readyB, threadLocal>>
    /\ UNCHANGED notCtorVars

\* one turn of cmd_rxs.into_iter().map(|rx| Some(thread::spawn(..)))
CtorSpawn ==
    /\ newPc = "spawn"
    /\ tPc' = [tPc EXCEPT ![newSpawned + 1] = "build"]
    /\ newSpawned' = newSpawned + 1
    /\ newPc' = IF newSpawned + 1 = newNum THEN "ready" ELSE "spawn"
    /\ UNCHANGED <<newNum, newSeen, readyB, tRing, tI, tSeen>>
    /\ UNCHANGED notCtorVars

\* ready_barrier.wait() of the calling thread, the arrival; when it passes
\* with_sink returns the pool
CtorReadyArrive ==
    /\ newPc = "ready"
    /\ LET a == ArriveOf(readyB, newNum + 1)
       IN  /\ readyB' = a.barrier
           /\ newPc' = IF a.passes THEN "returned" ELSE "ready_blocked"
    /\ newSeen' = readyB.generation
    /\ UNCHANGED <<newNum, newSpawned, threadLocal>>
    /\ UNCHANGED notCtorVars

\* ready_barrier.wait() of the calling thread passes, with_sink returns
CtorReadyPass ==
    /\ newPc = "ready_blocked"
    /\ readyB.generation /= newSeen
    /\ newPc' = "returned"
    /\ UNCHANGED <<newNum, newSpawned, newSeen, readyB, threadLocal>>
    /\ UNCHANGED notCtorVars

\* let ring = SpillRing::with_sink(sink)
ThreadBuild(w) ==
    /\ tPc[w] = "build"
    /\ tRing' = [tRing EXCEPT ![w] = [built |-> TRUE, touched |-> {}, head |-> 0, tail |-> 0]]
    /\ tI' = [tI EXCEPT ![w] = 0]
    /\ tPc' = [tPc EXCEPT ![w] = "warm"]
    /\ UNCHANGED <<newLocal, readyB, tSeen>>
    /\ UNCHANGED notCtorVars

\* one turn of for i in 0..N { write_volatile(slot i, uninit) }: the slot is
\* touched and holds no item
ThreadWarm(w) ==
    /\ tPc[w] = "warm"
    /\ tRing' = [tRing EXCEPT ![w].touched = @ \cup {tI[w]}]
    /\ tI' = [tI EXCEPT ![w] = @ + 1]
    /\ tPc' = [tPc EXCEPT ![w] = IF tI[w] + 1 = N THEN "reset_head" ELSE "warm"]
    /\ UNCHANGED <<newLocal, readyB, tSeen>>
    /\ UNCHANGED notCtorVars

\* ring.head.store(0)
ThreadResetHead(w) ==
    /\ tPc[w] = "reset_head"
    /\ tRing' = [tRing EXCEPT ![w].head = 0]
    /\ tPc' = [tPc EXCEPT ![w] = "reset_tail"]
    /\ UNCHANGED <<newLocal, readyB, tI, tSeen>>
    /\ UNCHANGED notCtorVars

\* ring.tail.store(0)
ThreadResetTail(w) ==
    /\ tPc[w] = "reset_tail"
    /\ tRing' = [tRing EXCEPT ![w].tail = 0]
    /\ tPc' = [tPc EXCEPT ![w] = "ready"]
    /\ UNCHANGED <<newLocal, readyB, tI, tSeen>>
    /\ UNCHANGED notCtorVars

\* ready.wait() of a thread, the arrival; past the barrier the thread is in
\* rx.recv()
ThreadReadyArrive(w) ==
    /\ tPc[w] = "ready"
    /\ LET a == ArriveOf(readyB, newNum + 1)
       IN  /\ readyB' = a.barrier
           /\ tPc' = [tPc EXCEPT ![w] = IF a.passes THEN "recv" ELSE "ready_blocked"]
    /\ tSeen' = [tSeen EXCEPT ![w] = readyB.generation]
    /\ UNCHANGED <<newLocal, tRing, tI>>
    /\ UNCHANGED notCtorVars

\* ready.wait() of a thread passes
ThreadReadyPass(w) ==
    /\ tPc[w] = "ready_blocked"
    /\ readyB.generation /= tSeen[w]
    /\ tPc' = [tPc EXCEPT ![w] = "recv"]
    /\ UNCHANGED <<newLocal, readyB, tRing, tI, tSeen>>
    /\ UNCHANGED notCtorVars

CtorThread(w) ==
    \/ ThreadBuild(w)
    \/ ThreadWarm(w)
    \/ ThreadResetHead(w)
    \/ ThreadResetTail(w)
    \/ ThreadReadyArrive(w)
    \/ ThreadReadyPass(w)

CtorNext ==
    \/ CtorCall
    \/ CtorSpawn
    \/ CtorReadyArrive
    \/ CtorReadyPass
    \/ \E w \in NewWorkers : CtorThread(w)

\* ---------------------------------------------- pool with a work function
IdWorkers == 1..MaxIdWorkers

\* the id given to the i-th worker spawned, i counted from 0
SpawnIdShared(i) == 0

SpawnId(i) == i

\* the rings of workers 1..n, drained in that order
RECURSIVE CollectRings(_, _)
CollectRings(rings, n) == IF n = 0 THEN <<>> ELSE CollectRings(rings, n - 1) \o rings[n]

\* before MpscRing::pool is called
WorkInit ==
    /\ uNum = 0
    /\ uPc = "idle"
    /\ uSpawned = 0
    /\ uId = [w \in IdWorkers |-> -1]
    /\ uRun = 0
    /\ uDone = [w \in IdWorkers |-> 0]
    /\ uCalls = <<>>
    /\ uRings = [w \in IdWorkers |-> <<>>]
    /\ uDrained = <<>>

\* MpscRing::pool(k).spawn(work) is called
WorkPool ==
    /\ uPc = "idle"
    /\ \E k \in 1..MaxIdWorkers : uNum' = k
    /\ uPc' = "spawn"
    /\ UNCHANGED <<uSpawned, uId, uRun, uDone, uCalls, uRings, uDrained>>
    /\ UNCHANGED notWorkVars

\* spawn: the next worker thread is started and holds its id
WorkSpawn ==
    /\ uPc = "spawn"
    /\ uId' = [uId EXCEPT ![uSpawned + 1] = SpawnId(uSpawned)]
    /\ uSpawned' = uSpawned + 1
    /\ uPc' = IF uSpawned + 1 = uNum THEN "ready" ELSE "spawn"
    /\ UNCHANGED <<uNum, uRun, uDone, uCalls, uRings, uDrained>>
    /\ UNCHANGED notWorkVars

\* pool.run(&args) is called
WorkRun ==
    /\ uPc = "ready"
    /\ uRun < MaxRuns
    /\ uRun' = uRun + 1
    /\ uPc' = "running"
    /\ UNCHANGED <<uNum, uSpawned, uId, uDone, uCalls, uRings, uDrained>>
    /\ UNCHANGED notWorkVars

\* worker w calls work(ring, id, args) for this run; the work function of
\* the test pushes the id
WorkCall(w) ==
    /\ uPc = "running"
    /\ w <= uNum
    /\ uDone[w] < uRun
    /\ uCalls' = Append(uCalls, [worker |-> w, id |-> uId[w], run |-> uRun])
    /\ uRings' = [uRings EXCEPT ![w] = Append(@, uId[w])]
    /\ uDone' = [uDone EXCEPT ![w] = uRun]
    /\ UNCHANGED <<uNum, uPc, uSpawned, uId, uRun, uDrained>>
    /\ UNCHANGED notWorkVars

\* run returns: every worker has done the work of this run
WorkRunReturns ==
    /\ uPc = "running"
    /\ \A w \in 1..uNum : uDone[w] = uRun
    /\ uPc' = "ready"
    /\ UNCHANGED <<uNum, uSpawned, uId, uRun, uDone, uCalls, uRings, uDrained>>
    /\ UNCHANGED notWorkVars

\* pool.into_consumer() and consumer.drain(&mut sink)
WorkDrain ==
    /\ uPc = "ready"
    /\ uDrained' = CollectRings(uRings, uNum)
    /\ uRings' = [w \in IdWorkers |-> <<>>]
    /\ uPc' = "drained"
    /\ UNCHANGED <<uNum, uSpawned, uId, uRun, uDone, uCalls>>
    /\ UNCHANGED notWorkVars

WorkNext ==
    \/ WorkPool
    \/ WorkSpawn
    \/ WorkRun
    \/ \E w \in IdWorkers : WorkCall(w)
    \/ WorkRunReturns
    \/ WorkDrain

\* ------------------------------------------------------- specifications
Init ==
    /\ RingInit
    /\ ChainInit
    /\ SpscInit
    /\ MpscInit
    /\ SharedInit
    /\ FactoryInit
    /\ BatchInit
    /\ VariantInit
    /\ PoolInit
    /\ ChanInit
    /\ ReadInit
    /\ CtorInit
    /\ WorkInit

Spec == Init /\ [][Next]_vars

SpecChain == Init /\ [][ChainNext]_vars

SpecSpsc == Init /\ [][SpscNext]_vars

SpecMpsc == Init /\ [][MpscNext]_vars

SpecShared == Init /\ [][SharedNext]_vars

SpecFactory == Init /\ [][FactoryNext]_vars

SpecBatch == Init /\ [][BatchNext]_vars

SpecVariant == Init /\ [][VariantNext]_vars

SpecPool == Init /\ [][PoolNext]_vars

SpecChan == Init /\ [][ChanNext]_vars

SpecRead == Init /\ [][ReadNext]_vars

SpecPoolApi == Init /\ [][PoolApiNext]_vars

SpecCtor == Init /\ [][CtorNext]_vars

SpecWork == Init /\ [][WorkNext]_vars

\* the threads of the pool
PoolThreads == PoolMain \/ \E w \in Workers : PoolWorker(w)

\* while some thread can take a step of a call in progress, one is taken:
\* what every scheduler that is fair to each thread ensures, since no step
\* of one thread disables a step of another
PoolFairness == WF_vars(PoolThreads)

SpecPoolFair == Init /\ [][PoolNext]_vars /\ PoolFairness

\* ---------------------------------------------------------------- claims
\* the items sent to a sink by sending seq in order
Sends(seq) == [i \in 1..Len(seq) |-> SendEv(seq[i])]

\* the number of items that have left the ring
Removed == Len(popped) + Len(SinkItems(sink)) + Len(dropped)

\* C1: at every observable point 0 <= tail - head <= N (in counter
\* arithmetic), len() is tail - head and is the number of accepted items
\* that have not left the ring, is_full() holds exactly when len() = N, and
\* is_empty() holds exactly when head = tail.
C1_IndexInvariant ==
    /\ RingLen(Ring) = WrappingSub(tail, head)
    /\ RingLen(Ring) >= 0
    /\ RingLen(Ring) <= N
    /\ tail = pushed % Modulus
    /\ head = Removed % Modulus
    /\ RingLen(Ring) = pushed - Removed
    /\ IsFull(Ring) <=> (RingLen(Ring) = N)
    /\ IsEmpty(Ring) <=> (head = tail)
    /\ IsEmpty(Ring) <=> (RingLen(Ring) = 0)

C1_Witness ==
    /\ IsFull(Ring)
    /\ tail < head
    /\ call.op \in {"push", "try_push"}

\* C2: every accepted item is in exactly one place: the live range, the
\* values returned by pop, the items sent to the sink, or the items
\* discarded by clear_drop; nothing else is in any of them.
C2_ExactlyOnePlace ==
    LET all == Live(Ring) \o popped \o SinkItems(sink) \o dropped
    IN  /\ Len(all) = pushed
        /\ \A x \in 1..pushed :
              Cardinality({i \in 1..Len(all) : all[i] = x}) = 1

C2_Witness ==
    /\ RingLen(Ring) > 0
    /\ popped # <<>>
    /\ SinkItems(sink) # <<>>
    /\ dropped # <<>>

\* C3: after k pushes and nothing else, the sink holds exactly the items
\* 1..k-N in push order (nothing when k <= N), len() = min(k, N) and the
\* ring holds the last min(k, N) items in push order.
C3_PushOnly ==
    pushOnly =>
        LET k == pushed
            m == IF k > N THEN N ELSE k
        IN  /\ sink = Sends([i \in 1..(k - m) |-> i])
            /\ RingLen(Ring) = m
            /\ Live(Ring) = [i \in 1..m |-> k - m + i]

C3_Witness ==
    /\ pushOnly
    /\ pushed >= N + 2
    /\ call.op = "push"

\* C4: the values returned by pop are in push order, and a successful pop
\* returns the oldest item that was live in the ring.
C4_PoppedInOrder ==
    \A i \in 1..Len(popped) : \A j \in 1..Len(popped) :
        i < j => popped[i] < popped[j]

C4_PopOldest ==
    (call'.op = "pop" /\ ~IsEmpty(Ring)) =>
        /\ call'.ret = Some(Live(Ring)[1])
        /\ \A i \in 1..RingLen(Ring) : call'.ret.val <= Live(Ring)[i]
        /\ popped' = Append(popped, call'.ret.val)

C4_Fifo == []C4_PoppedInOrder /\ [][C4_PopOldest]_vars

C4_Witness ==
    /\ call.op = "pop"
    /\ call.ret.tag = "some"
    /\ Len(popped) >= 2
    /\ SinkItems(sink) # <<>>

\* C5: try_push on a full ring returns the item and changes nothing;
\* try_push on a ring that is not full stores the item as the newest
\* element, increases len by one and sends nothing to the sink.
C5_TryPushStep ==
    call'.op = "try_push" =>
        IF RingLen(Ring) = N
        THEN /\ call'.ret = Err(call'.arg)
             /\ UNCHANGED <<head, tail, buffer, sink>>
        ELSE /\ call'.ret = Ok
             /\ Live(Ring') = Append(Live(Ring), call'.arg)
             /\ RingLen(Ring') = RingLen(Ring) + 1
             /\ head' = head
             /\ sink' = sink

C5_TryPush == [][C5_TryPushStep]_vars

C5_Witness ==
    /\ call.op = "try_push"
    /\ call.ret = Err(pushed + 1)
    /\ RingLen(Ring) = N
    /\ SinkItems(sink) # <<>>

\* C6: pop never touches the sink or tail; on an empty ring it returns
\* nothing and leaves head unchanged; otherwise it advances head by one.
C6_PopStep ==
    call'.op = "pop" =>
        /\ sink' = sink
        /\ tail' = tail
        /\ IF head = tail
           THEN call'.ret = None /\ head' = head
           ELSE call'.ret.tag = "some" /\ head' = WrappingAdd(head, 1)

C6_PopFrame == [][C6_PopStep]_vars

C6_Witness ==
    /\ call.op = "pop"
    /\ call.ret = None
    /\ popped # <<>>
    /\ sink # <<>>

\* C7: flush and clear append exactly the live items, oldest to newest, to
\* what the sink already received, leave the ring empty, and flush returns
\* the number of items it sent.
C7_FlushStep ==
    call'.op \in {"flush", "clear"} =>
        /\ sink' = sink \o Sends(Live(Ring))
        /\ IsEmpty(Ring')
        /\ call'.op = "flush" => call'.ret = Count(RingLen(Ring))

C7_Flush == [][C7_FlushStep]_vars

C7_Witness ==
    /\ call.op = "flush"
    /\ call.ret = Count(N)
    /\ Len(sink) > N

\* C8: flush on an empty ring sends nothing to the sink, returns 0 and
\* leaves head and tail unchanged.
C8_FlushEmptyStep ==
    (call'.op = "flush" /\ IsEmpty(Ring)) =>
        /\ sink' = sink
        /\ call'.ret = Count(0)
        /\ head' = head
        /\ tail' = tail

C8_FlushIdempotent == [][C8_FlushEmptyStep]_vars

C8_Witness ==
    /\ call.op = "flush"
    /\ call.ret = Count(0)
    /\ sink # <<>>
    /\ head # 0

\* C9: clear_drop leaves the ring empty and makes no call on the sink; a
\* drop right after clear_drop sends no item to the sink.
C9_ClearDropStep ==
    /\ call'.op = "clear_drop" => (sink' = sink /\ IsEmpty(Ring'))
    /\ (call.op = "clear_drop" /\ call'.op = "drop") =>
            SinkItems(sink') = SinkItems(sink)

C9_ClearDrop == [][C9_ClearDropStep]_vars

C9_Witness ==
    /\ call.op = "clear_drop"
    /\ Len(dropped) >= N
    /\ IsEmpty(Ring)

\* C10: dropping the ring sends every live item to the sink, oldest to
\* newest, and then calls the sink's flush(); no live item is left.
C10_DropStep ==
    call'.op = "drop" =>
        /\ sink' = (sink \o Sends(Live(Ring))) \o <<FlushEv>>
        /\ IsEmpty(Ring')
        /\ ~alive'

C10_Drop == [][C10_DropStep]_vars

C10_Witness ==
    /\ ~alive
    /\ call.op = "drop"
    /\ Len(sink) > N
    /\ sink[Len(sink) - 1].op = "send"

\* C11: the items the sink receives, by eviction, flush and drop together,
\* arrive in push order: an item pushed earlier is never received after an
\* item pushed later.
C11_SinkInPushOrder ==
    LET got == SinkItems(sink)
    IN  \A i \in 1..Len(got) : \A j \in 1..Len(got) :
            i < j => got[i] < got[j]

C11_Witness ==
    LET got == SinkItems(sink)
    IN  /\ call.op \in {"flush", "drop", "push_and_flush"}
        /\ popped # <<>>
        /\ Len(got) >= 3
        /\ \E i \in 1..(Len(got) - 1) : got[i + 1] > got[i] + 1

\* the sequence lo+1, lo+2, ..., hi
Run(lo, hi) == [i \in 1..(hi - lo) |-> lo + i]

\* C12: after k pushes into ring A and nothing else, A holds the last
\* min(k, a) items, B the min(max(k - a, 0), b) items before them, the
\* terminal sink the remaining oldest items, and terminal sink, B, A
\* together are the items 1..k in push order.
C12_ChainCascade ==
    chainCall.pushOnly =>
        LET k == chainPushed
            inA == IF k > CapA THEN CapA ELSE k
            rest == k - inA
            inB == IF rest > CapB THEN CapB ELSE rest
        IN  /\ Live(ringA) = Run(k - inA, k)
            /\ Live(ringB) = Run(k - inA - inB, k - inA)
            /\ SinkItems(term) = Run(0, k - inA - inB)
            /\ term = Sends(Run(0, k - inA - inB))
            /\ (SinkItems(term) \o Live(ringB)) \o Live(ringA) = Run(0, k)

C12_Witness ==
    /\ chainCall.pushOnly
    /\ chainCall.op = "push"
    /\ RingLen(ringA) = CapA
    /\ RingLen(ringB) = CapB
    /\ Len(term) >= 2

\* C13: once A has been flushed and then B, or A has been dropped, both
\* rings are empty and the terminal sink holds every item that was pushed
\* into A (and not popped by the caller) exactly once, in push order.
C13_ChainDelivered ==
    (\/ chainCall.op = "dropA"
     \/ chainCall.op = "flushB" /\ chainCall.prev = "flushA") =>
        LET got == SinkItems(term)
        IN  /\ IsEmpty(ringA)
            /\ IsEmpty(ringB)
            /\ \A i \in 1..Len(got) : \A j \in 1..Len(got) :
                    i < j => got[i] < got[j]
            /\ \A x \in 1..chainPushed :
                    Cardinality({i \in 1..Len(got) : got[i] = x})
                    + Cardinality({i \in 1..Len(chainPopped) : chainPopped[i] = x}) = 1
            /\ Len(got) + Len(chainPopped) = chainPushed
            /\ chainPopped = <<>> => got = Run(0, chainPushed)

C13_Witness ==
    /\ chainCall.op = "flushB"
    /\ chainCall.prev = "flushA"
    /\ chainPopped = <<>>
    /\ Len(SinkItems(term)) > CapA + CapB

\* the shared SPSC ring as a value
SpscRing == [buffer |-> sBuf, head |-> sHead, tail |-> sTail]

\* C14: when the producer pushes only after it has seen len() < N-1, push
\* never takes the eviction branch, head is written only by the consumer
\* and tail only by the producer, and the values pop returns, followed by
\* the items still in the ring, are the pushed items, once each, in push
\* order.
C14_NoEviction ==
    spscMode = "bp" =>
        /\ pPc \notin {"evictRead", "evictStore", "evictSend"}
        /\ sDiscarded = <<>>
        /\ received = Run(0, Len(received))
        /\ received \o Live(SpscRing) = Run(0, sPushed)
        /\ (sPushed = MaxSpscPush /\ sHead = sTail) => received = Run(0, MaxSpscPush)

C14_Writers ==
    spscMode = "bp" =>
        /\ sHead' # sHead => sCall'.who = "consumer"
        /\ sTail' # sTail => sCall'.who = "producer"

C15_PopIncreasing ==
    spscMode = "free" =>
        /\ \A i \in 1..Len(received) : received[i] \in 1..MaxSpscPush
        /\ \A i \in 1..Len(received) : \A j \in 1..Len(received) :
              i < j => received[i] < received[j]

\* C16: while a thread pushes without backpressure, every value len()
\* returns to another thread is at most N.
C16_LenAtMostN ==
    spscMode = "len" => \A i \in 1..Len(lenSeen) : lenSeen[i] <= N

\* C17: when pop or peek reads the slot at the head it loaded, after it saw
\* head # tail, that slot has been written and no write of it is under way.
C17_ReadStep ==
    (cPc = "read" /\ cPc' # "read") =>
        /\ sBuf[cHead % N] # Uninit
        /\ sWriting # cHead % N

C17_ReadsWrittenSlot == [][C17_ReadStep]_vars

\* the items of seq that producer p pushed, in the order they have in seq
FromProducer(seq, p) == SelectSeq(seq, LAMBDA x : ProducerOf(x) = p)

\* the first m items producer p pushes, in push order
PushedBy(p, m) == [k \in 1..m |-> ItemOf(p, k)]

Min(a, b) == IF a < b THEN a ELSE b

Max(a, b) == IF a > b THEN a ELSE b

\* every producer has been collected and the last call was drain
AllDrained == Collected = Producers /\ mCall.op = "drain"

\* C18: for every producer that has pushed m items, its own sink holds its
\* max(m - N, 0) oldest items, the target sink and its ring together hold
\* the min(m, N) newest, and own sink, target sink and ring together are its
\* items in push order; once every producer has been collected and drained
\* the rings are empty, so when each of the P producers pushed M items the
\* target sink holds P * min(M, N) items and drained plus evicted is P * M.
C18_MpscDelivered ==
    /\ \A p \in Producers :
        LET m == mProduced[p]
            ev == SinkItems(mSinks[p])
            tg == FromProducer(SinkItems(target), p)
            lv == Live(mRings[p])
        IN  /\ ev \o tg \o lv = PushedBy(p, m)
            /\ Len(ev) = Max(m - N, 0)
            /\ Len(tg) + Len(lv) = Min(m, N)
            /\ AllDrained => lv = <<>>
    /\ \A M \in 0..MaxProduce :
        (AllDrained /\ \A p \in Producers : mProduced[p] = M) =>
            Len(SinkItems(target)) = NumProducers * Min(M, N)

C18_Witness ==
    /\ AllDrained
    /\ \A p \in Producers : mProduced[p] = MaxProduce
    /\ \A p \in Producers : SinkItems(mSinks[p]) # <<>>
    /\ Len(SinkItems(target)) = NumProducers * N

\* the live items of the rings of order, ring by ring
RECURSIVE LiveOf(_, _)
LiveOf(rings, order) ==
    IF order = <<>> THEN <<>>
    ELSE Live(rings[Head(order)]) \o LiveOf(rings, Tail(order))

\* C19: a drain call appends to what the target sink already received the
\* live items of the collected rings, ring by ring in the order the rings
\* were added and oldest to newest within each ring, followed by exactly
\* one flush(); it leaves the collected rings empty and every other ring
\* and every producer's own sink unchanged.
C19_DrainStep ==
    mCall'.op = "drain" =>
        /\ target' = target \o Sends(LiveOf(mRings, cRings)) \o <<FlushEv>>
        /\ \A p \in Collected : IsEmpty(mRings'[p])
        /\ \A p \in Producers \ Collected : mRings'[p] = mRings[p]
        /\ mSinks' = mSinks

C19_Drain == [][C19_DrainStep]_vars

C19_Witness ==
    /\ mCall.op = "drain"
    /\ cRings = <<2, 1>>
    /\ mCall.sent >= 3
    /\ FromProducer(SinkItems(target), 1) # <<>>
    /\ FromProducer(SinkItems(target), 2) # <<>>

\* C20: a push on one producer leaves the ring and the own sink of every
\* other producer, the consumer's rings and the target sink unchanged.
C20_PushStep ==
    mCall'.op = "push" =>
        /\ \A q \in Producers \ {mCall'.p} :
            /\ mRings'[q] = mRings[q]
            /\ mSinks'[q] = mSinks[q]
        /\ cRings' = cRings
        /\ target' = target

C22_UniqueIds ==
    /\ \A i \in 2..Len(kSinks) : kSinks[i].producer_id = i - 2
    /\ \A i \in 2..Len(kSinks) : \A j \in 2..Len(kSinks) :
          kSinks[i].producer_id = kSinks[j].producer_id => i = j
    /\ \A a \in 1..Len(kFactory) : \A b \in 1..Len(kFactory) :
          kFactory[a].id = kFactory[b].id => kFactory[a].inst = kFactory[b].inst

\* the concatenation of a sequence of batches
RECURSIVE Concat(_)
Concat(batches) ==
    IF batches = <<>> THEN <<>> ELSE Head(batches) \o Concat(Tail(batches))

\* C23: a send forwards a batch exactly when the buffered count reaches the
\* threshold B, and the sink then holds 0 items; the batches forwarded so
\* far followed by the buffer are the items sent, in order; after k sends
\* and then one flush the inner sink holds ceil(k/B) batches, each but the
\* last of B items, the last of k - B*floor((k-1)/B) items.
C23_BatchInv ==
    bKind = "batch" =>
        LET B == bSink.threshold
            k == bSent
        IN  /\ Len(bSink.buffer) < B
            /\ Concat(bSink.inner) \o bSink.buffer = Run(0, k)
            /\ (bCall.op = "flush" /\ bFlushes = 1) =>
                  /\ bSink.buffer = <<>>
                  /\ Len(bSink.inner) = (k + B - 1) \div B
                  /\ \A i \in 1..(Len(bSink.inner) - 1) : Len(bSink.inner[i]) = B
                  /\ k > 0 => Len(bSink.inner[Len(bSink.inner)]) = k - B * ((k - 1) \div B)

C23_SendStep ==
    (bKind = "batch" /\ bCall'.op = "send") =>
        /\ (bCall'.forwarded = 1) = (Len(bSink.buffer) + 1 = bSink.threshold)
        /\ bCall'.forwarded \in {0, 1}
        /\ bCall'.forwarded = 1 => bSink'.buffer = <<>>

C23_Batching == []C23_BatchInv /\ [][C23_SendStep]_vars

C23_Witness ==
    /\ bKind = "batch"
    /\ bSink.threshold = 2
    /\ bSent = MaxBatchSend
    /\ bCall.op = "flush"
    /\ bFlushes = 1
    /\ Len(bSink.inner) >= 3
    /\ Len(bSink.inner[Len(bSink.inner)]) < Len(bSink.inner[1])

\* C24: the inner sink of a reducing sink receives one reduced value per
\* full batch of B consecutive items, at the send that completes the
\* batch, and on flush the reduced value of the partial batch if it is not
\* empty and nothing otherwise; what it has received are reductions of
\* consecutive non-empty batches of at most B items that, with the buffer,
\* cover the items sent.
C24_ReduceInv ==
    bKind = "reduce" =>
        /\ Len(bSink.buffer) < bSink.threshold
        /\ \A i \in 1..Len(bSink.inner) :
              /\ bSink.inner[i].len \in 1..bSink.threshold
              /\ bFlushes = 0 =>
                    bSink.inner[i] = Reduction(Run((i - 1) * bSink.threshold,
                                                   i * bSink.threshold))
        /\ SeqSum([i \in 1..Len(bSink.inner) |-> bSink.inner[i].len])
              + Len(bSink.buffer) = bSent
        /\ SeqSum([i \in 1..Len(bSink.inner) |-> bSink.inner[i].sum])
              + SeqSum(bSink.buffer) = SeqSum(Run(0, bSent))

C24_ReduceStep ==
    bKind = "reduce" =>
        /\ bCall'.op = "send" =>
              IF Len(bSink.buffer) + 1 = bSink.threshold
              THEN bSink'.inner = Append(bSink.inner,
                                         Reduction(Append(bSink.buffer, bSent + 1)))
              ELSE bSink'.inner = bSink.inner
        /\ bCall'.op = "flush" =>
              /\ bSink'.buffer = <<>>
              /\ IF bSink.buffer = <<>> THEN bSink'.inner = bSink.inner
                 ELSE bSink'.inner = Append(bSink.inner, Reduction(bSink.buffer))

C24_Reducing == []C24_ReduceInv /\ [][C24_ReduceStep]_vars

C24_Witness ==
    /\ bKind = "reduce"
    /\ bSink.threshold = 2
    /\ bCall.op = "flush"
    /\ bCall.forwarded = 1
    /\ Len(bSink.inner) = 3
    /\ bSink.inner[3].len = 1

\* a flush call on a sink that has nothing buffered
FlushOfEmpty == vCall'.op = "flush" /\ vSink.batch.buffer = <<>>

\* the calls of send closures among the closure calls
SendCallbacks(cbs) == SelectSeq(cbs, LAMBDA c : c.cb = "send")

\* C25 as stated: for every sink variant a flush with nothing buffered, in
\* particular a second flush right after a first, changes nothing that can
\* be observed: no output and no callback is invoked.
C25_FlushStepNoop ==
    FlushOfEmpty => (vSink' = vSink /\ vCallbacks' = vCallbacks)

C25_FlushNoop == [][C25_FlushStepNoop]_vars

\* C25, amended: for every sink variant a flush with nothing buffered, in
\* particular a second flush right after a first, produces no output and
\* calls no send closure and no factory; the closure pair calls its flush
\* closure once on every flush, and no other variant calls any closure.
C25_FlushStepAmended ==
    FlushOfEmpty =>
        /\ vSink' = vSink
        /\ SendCallbacks(vCallbacks') = SendCallbacks(vCallbacks)
        /\ IF vKind = "fnflush"
           THEN vCallbacks' = Append(vCallbacks, [cb |-> "flush", item |-> 0])
           ELSE vCallbacks' = vCallbacks

C25_FlushAmended == [][C25_FlushStepAmended]_vars

C25_Witness ==
    /\ vKind = "fnflush"
    /\ vSent > 0
    /\ vCall = [op |-> "flush", prev |-> "flush"]
    /\ Len(vCallbacks) - Len(SendCallbacks(vCallbacks)) = 2

\* the last n items of a sequence
LastOf(seq, n) == SubSeq(seq, Len(seq) - n + 1, Len(seq))

\* what the own sinks of workers 1..n received, in all
RECURSIVE Overflowed(_)
Overflowed(n) == IF n = 0 THEN 0 ELSE Len(SinkItems(pSinks[n])) + Overflowed(n - 1)

\* C26: in a pool of k workers with rings of capacity N, after runs whose
\* counts add up to T, into_consumer and drain, the drain has yielded for
\* each worker the last min(T, N) of the T items it pushed and the
\* worker's own sink has received the T - min(T, N) before them; drained
\* plus overflowed is k*T, and drained is k*T when N >= T. Before that,
\* own sink and ring of a worker hold the items it pushed, in push order.
C26_PoolTotals ==
    LET T == mGhost.total
        drained == SinkItems(pTarget)
    IN  /\ \A w \in Workers :
              /\ pPushed[w] <= T
              /\ mPc /= "drained" =>
                    SinkItems(pSinks[w]) \o Live(pRings[w]) = PushedBy(w, pPushed[w])
        /\ mPc = "drained" =>
              /\ \A w \in Workers :
                    /\ FromProducer(drained, w) = LastOf(PushedBy(w, T), Min(T, N))
                    /\ SinkItems(pSinks[w]) = PushedBy(w, T - Min(T, N))
                    /\ IsEmpty(pRings[w])
              /\ Len(drained) + Overflowed(NumWorkers) = NumWorkers * T
              /\ N >= T => Len(drained) = NumWorkers * T

C26_Witness ==
    /\ mPc = "drained"
    /\ mGhost.runs = 2
    /\ mCount = 1
    /\ mGhost.total = N + 1
    /\ Overflowed(NumWorkers) = NumWorkers

\* C27: a run call is one generation. A worker that has started the work
\* of generation g has, like every other worker, received g commands and
\* reached the start barrier g times; when g run calls have returned every
\* worker has finished g generations of work and reached the done barrier
\* g times; a worker that has started generation g + 1 finds that every
\* worker has finished generation g. No worker is ahead of the run calls.
C27_Generations ==
    \A w \in Workers :
        /\ wGhost[w].started <= wGhost[w].arrived
        /\ wGhost[w].arrived <= wGhost[w].recv
        /\ wGhost[w].recv <= mGhost.runs
        /\ wGhost[w].finished <= wGhost[w].started
        /\ mGhost.returned <= wGhost[w].finished
        /\ mGhost.runs <= mGhost.returned + 1
        /\ pPushed[w] > mGhost.total - mCount => wGhost[w].started = mGhost.runs
        /\ \A v \in Workers :
              /\ wGhost[w].started <= wGhost[v].recv
              /\ wGhost[w].started <= wGhost[v].arrived
              /\ wGhost[w].started <= wGhost[v].finished + 1

C27_Witness ==
    /\ wPc[1] = "work"
    /\ wGhost[1].started = 2
    /\ wPc[2] = "start_blocked"
    /\ mPc = "start_blocked"
    /\ wGhost[2].started = 1

\* C28: under fair scheduling a run call that has been made returns, and a
\* drop of the pool that has begun ends with every worker out of its
\* command loop and joined.
C28_RunReturns == (mOp = "run") ~> (mOp = "none")

C28_DropEnds ==
    (mOp = "drop") ~> (mPc = "dropped" /\ \A w \in Workers : wPc[w] = "joined")

C28_Terminates == C28_RunReturns /\ C28_DropEnds

C28_Witness ==
    /\ mPc = "dropped"
    /\ mGhost.returned = MaxRuns
    /\ mGhost.total > N
    /\ \A w \in Workers : wPc[w] = "joined"

\* C29: when into_consumer has returned, the senders of all command
\* channels are gone, all k threads are joined, and the Consumer holds the
\* k rings in worker order, each with what the worker's ring held when its
\* thread ended, the last min(T, N) of its T pushes; into_consumer itself
\* changes no ring, and for a pool that never ran all k rings are empty.
C29_ConsumerInv ==
    mPc = "consumer" =>
        /\ ~txOpen
        /\ \A w \in Workers : wPc[w] = "joined"
        /\ pConsumer = [i \in 1..NumWorkers |-> i]
        /\ \A w \in Workers :
              /\ pPushed[w] = mGhost.total
              /\ Live(pRings[w]) = LastOf(PushedBy(w, pPushed[w]), Min(pPushed[w], N))
        /\ mGhost.runs = 0 => LiveOf(pRings, pConsumer) = <<>>

C29_Step ==
    (mOp' = "into_consumer" /\ mPc' /= "drained") =>
        /\ pRings' = pRings
        /\ pSinks' = pSinks
        /\ Len(pConsumer') = Cardinality({w \in Workers : wPc'[w] = "joined"})

C29_IntoConsumer == []C29_ConsumerInv /\ [][C29_Step]_vars

C29_Witness ==
    /\ mPc = "consumer"
    /\ mGhost.total = N + 1
    /\ Len(pConsumer) = NumWorkers
    /\ \A w \in Workers : RingLen(pRings[w]) = N

\* C30: no failure of a send on the channel reaches the caller, with the
\* receiver connected or gone: push returns normally, and the ring goes on
\* accepting pushes and evicting, 0 <= tail - head <= N with the last
\* min(k, N) of the k items pushed live in push order unless flushed;
\* while the receiver is connected, what it has received followed by what
\* the channel holds are the items that left the ring, in the order they
\* left it, and after it is gone what it had received is a prefix of them.
C30_ChannelInv ==
    LET left == Run(0, xPushed - RingLen(xRing))
    IN  /\ ~xChan.escaped
        /\ xCall.op = "push" => xCall.ret = Unit
        /\ RingLen(xRing) <= N
        /\ Live(xRing) = Run(xPushed - RingLen(xRing), xPushed)
        /\ xChan.connected => xReceived \o xChan.queue = left
        /\ ~xChan.connected =>
              /\ xChan.queue = <<>>
              /\ Len(xReceived) <= Len(left)
              /\ xReceived = SubSeq(left, 1, Len(xReceived))

C30_PushStep ==
    xCall'.op = "push" =>
        /\ xPushed' = xPushed + 1
        /\ RingLen(xRing') = Min(RingLen(xRing) + 1, N)
        /\ Live(xRing')[RingLen(xRing')] = xPushed'
        /\ (xChan.connected /\ RingLen(xRing) = N) =>
              xChan'.queue = Append(xChan.queue, Live(xRing)[1])
        /\ ~xChan.connected => xChan' = xChan

C30_ChannelSink == []C30_ChannelInv /\ [][C30_PushStep]_vars

C30_Witness ==
    /\ ~xChan.connected
    /\ xCall.op = "push"
    /\ xPushed = MaxChanPush
    /\ xReceived = <<1>>
    /\ RingLen(xRing) = N
    /\ xRing.tail < xRing.head

\* the i-th of the items seq as an accessor returns it, nothing past the end
ItemAt(seq, i) == IF i < Len(seq) THEN Some(seq[i + 1]) ELSE None

\* C31: with the live items y0..y(m-1), get(i) returns yi for i < m and
\* nothing for i >= m, peek() is get(0) and what the next pop returns,
\* peek_back() is get(m-1), all three return nothing on an empty ring, and
\* a call of any of them leaves head, tail, the slots and the sink as they
\* were.
C31_AccessorValues ==
    LET m == Len(aLive)
    IN  /\ RingLen(aRing) = m
        /\ \A i \in 0..N : Get(aRing, i) = ItemAt(aLive, i)
        /\ Peek(aRing) = Get(aRing, 0)
        /\ Peek(aRing) = Pop(aRing).ret
        /\ PeekBack(aRing) = (IF m = 0 THEN None ELSE Get(aRing, m - 1))
        /\ m = 0 => (Peek(aRing) = None /\ PeekBack(aRing) = None /\ Get(aRing, 0) = None)
        /\ aCall.op = "peek" => aCall.ret = ItemAt(aLive, 0)
        /\ aCall.op = "peek_back" => aCall.ret = (IF m = 0 THEN None ELSE Some(aLive[m]))
        /\ aCall.op = "get" => aCall.ret = ItemAt(aLive, aCall.arg)

C31_AccessorStep ==
    aCall'.op \in {"peek", "peek_back", "get"} =>
        /\ aRing' = aRing
        /\ aSink' = aSink

C31_Accessors == []C31_AccessorValues /\ [][C31_AccessorStep]_vars

C31_Witness ==
    /\ aCall.op = "peek_back"
    /\ aCall.ret = Some(aPushed)
    /\ aPushed = MaxReadPush
    /\ Len(aLive) = N
    /\ aRing.tail < aRing.head
    /\ Peek(aRing) = Some(aPushed - N + 1)

\* the slots that hold the live range [head, tail) of the shared ring
LiveSlots == {WrappingAdd(sHead, i) % N : i \in 0..(WrappingSub(sTail, sHead) - 1)}

\* the items handed over so far: sent to the sink or returned by pop
HandedOver == sDiscarded \o received

\* C32: with one owner, a push that finds the ring full has head mod N =
\* tail mod N; it reads the oldest item out of that slot, advances head and
\* sends the item before it writes the new item into the slot. No slot is
\* written while it is in the live range [head, tail), and no read that
\* takes an item out (by eviction or by pop) takes an item taken before.
C32_SoloStep ==
    spscMode = "solo" =>
        /\ (sCall'.op = "push_load_head" /\ pPc' = "evictRead") =>
              /\ pHead' % N = pTail % N
              /\ WrappingSub(sTail, sHead) = N
        /\ sCall'.op \in {"write_begin", "write_end"} =>
              /\ pTail % N \notin LiveSlots
              /\ WrappingSub(pTail, pHead) >= N =>
                    /\ sHead = WrappingAdd(pHead, 1)
                    /\ sDiscarded /= <<>>
                    /\ sDiscarded[Len(sDiscarded)] = pEvicted
                    /\ sBuf[pTail % N] = pEvicted
        /\ sBuf' /= sBuf => sCall'.op = "write_end"
        /\ sCall'.op = "evict_read" =>
              /\ pEvicted' /= Uninit
              /\ \A i \in 1..Len(HandedOver) : HandedOver[i] /= pEvicted'
        /\ (sCall'.op = "read_slot" /\ cOp = "pop") =>
              /\ cItem' /= Uninit
              /\ \A i \in 1..Len(HandedOver) : HandedOver[i] /= cItem'

C32_EvictBeforeWrite == [][C32_SoloStep]_vars

C32_Witness ==
    /\ spscMode = "solo"
    /\ pPc = "storeTail"
    /\ sPushed = MaxSpscPush - 1
    /\ received /= <<>>
    /\ sDiscarded /= <<>>
    /\ sDiscarded[Len(sDiscarded)] = pEvicted
    /\ WrappingSub(pTail, pHead) = N

\* C33: without backpressure, with evicting pushes and concurrent pops,
\* every pushed element is handed over exactly once: what the sink received
\* and what pop returned are pushed elements, none of them twice (so none
\* both evicted and popped, none popped twice), and when no call is under
\* way every pushed element is in the sink, was returned by pop or is still
\* in the ring.
C33_HandedOverOnce ==
    spscMode = "free" =>
        /\ \A i \in 1..Len(HandedOver) : HandedOver[i] \in 1..(sPushed + 1)
        /\ \A i \in 1..Len(HandedOver) : \A j \in 1..Len(HandedOver) :
              i /= j => HandedOver[i] /= HandedOver[j]
        /\ (pPc = "idle" /\ cPc = "idle") =>
              \A x \in 1..sPushed :
                  \/ \E i \in 1..Len(HandedOver) : HandedOver[i] = x
                  \/ \E i \in 1..Len(Live(SpscRing)) : Live(SpscRing)[i] = x

\* C34: with one pushing thread (whose pushes evict) and one popping
\* thread, a store to head never writes a value behind the one head holds,
\* and head never passes tail: tail - head stays in 0..N.
C34_HeadStep ==
    (spscMode = "free" /\ sCall'.op \in {"evict_store_head", "pop_store_head"}) =>
        WrappingSub(sHead', sHead) <= 1

C34_HeadInv == spscMode = "free" => WrappingSub(sTail, sHead) <= N

C34_HeadForward == []C34_HeadInv /\ [][C34_HeadStep]_vars

\* C35: with counters of IndexBits bits that wrap to 0, N a power of two
\* below 2^IndexBits: (tail - head) mod 2^IndexBits is the number of live
\* items and lies in 0..N whether or not a counter has wrapped, the slot a
\* counter addresses moves on by one modulo N at every push and pop, the
\* step where the counter wraps included, and across the wrap pop returns
\* the oldest live item and a push on a full ring sends the oldest live
\* item to the sink.
C35_WrapValues ==
    /\ N < Modulus
    /\ Modulus % N = 0
    /\ aRing.head \in 0..(Modulus - 1)
    /\ aRing.tail \in 0..(Modulus - 1)
    /\ RingLen(aRing) = (aRing.tail - aRing.head + Modulus) % Modulus
    /\ RingLen(aRing) \in 0..N
    /\ RingLen(aRing) = Len(aLive)
    /\ \A i \in 1..Len(aLive) :
          aRing.buffer[((aRing.head + i - 1) % Modulus) % N] = aLive[i]

C35_WrapStep ==
    /\ aCall'.op = "push" =>
          /\ aRing'.tail % N = ((aRing.tail % N) + 1) % N
          /\ aRing'.tail = (IF aRing.tail = Modulus - 1 THEN 0 ELSE aRing.tail + 1)
          /\ aRing'.buffer[aRing.tail % N] = aCall'.arg
          /\ IF Len(aLive) = N
             THEN /\ aSink' = Append(aSink, SendEv(aLive[1]))
                  /\ aRing'.head % N = ((aRing.head % N) + 1) % N
             ELSE /\ aSink' = aSink
                  /\ aRing'.head = aRing.head
    /\ (aCall'.op = "pop" /\ aLive /= <<>>) =>
          /\ aCall'.ret = Some(aLive[1])
          /\ aRing'.head % N = ((aRing.head % N) + 1) % N
          /\ aRing'.head = (IF aRing.head = Modulus - 1 THEN 0 ELSE aRing.head + 1)
          /\ aRing'.tail = aRing.tail
    /\ (aCall'.op = "pop" /\ aLive = <<>>) =>
          /\ aCall'.ret = None
          /\ aRing' = aRing

C35_CounterWrap == []C35_WrapValues /\ [][C35_WrapStep]_vars

\* a pop that wraps the head counter to 0 after a push has wrapped the tail
\* counter, on a ring that has evicted
C35_Witness ==
    /\ aCall.op = "pop"
    /\ aCall.ret = Some(Modulus)
    /\ aRing.head = 0
    /\ aRing.tail = 1
    /\ aPushed = Modulus + 1
    /\ aSink /= <<>>
    /\ RingLen(aRing) = 1

\* some thread of the pool, the caller's or a worker's, can take a step
PoolCanStep == ENABLED (PoolMain \/ PoolApiMain \/ \E w \in Workers : PoolWorker(w))

\* C36: after any sequence of run, send, wait_start and wait_done calls
\* that have returned, drop and into_consumer join every worker and return:
\* from cmd_txs.clear() until the last join has returned there is always a
\* thread that can take a step (the number of steps left is bounded, so
\* teardown fails to return exactly when it reaches a state where none can).
C36_TeardownProceeds == mPc \in {"clear", "join"} => PoolCanStep

\* the threads of the pool under construction
Spawned == 1..newSpawned

FactoryCallsFor(calls, i) == SelectSeq(calls, LAMBDA c : c.inst = i)

\* instance i has been sent an item: its collecting inner sink holds one
HasSent(i) == kSinks[i].inner.items /= <<>>

\* C38: for every instance of the factory sink the factory has been called
\* once if the instance has been sent an item and not at all otherwise; the
\* first send calls the factory once, with the instance's id, and no later
\* send calls it; a flush calls no factory, with no send before it the flush
\* reaches no inner sink and changes nothing, and after a send it calls
\* flush on the inner sink; a send always reaches the inner sink.
C38_LazyValues ==
    \A i \in 1..Len(kSinks) :
        /\ Len(FactoryCallsFor(kFactory, i)) = (IF HasSent(i) THEN 1 ELSE 0)
        /\ kSinks[i].inner.some <=> HasSent(i)

C38_LazyStep ==
    LET i == kCall'.inst
    IN  /\ kCall'.op = "send" =>
              /\ kCall'.inner = "send"
              /\ kFactory' = (IF HasSent(i) THEN kFactory
                              ELSE Append(kFactory, [id |-> kSinks[i].producer_id, inst |-> i]))
        /\ kCall'.op = "flush" =>
              /\ kFactory' = kFactory
              /\ kCall'.inner = (IF HasSent(i) THEN "flush" ELSE "none")
              /\ ~HasSent(i) => kSinks' = kSinks
        /\ kCall'.op = "clone" => kFactory' = kFactory /\ kCall'.inner = "none"

C38_LazyInner == []C38_LazyValues /\ [][C38_LazyStep]_vars

\* a delegated flush on a clone that was flushed before its first send,
\* while another instance has still not been sent anything
C38_Witness ==
    /\ kCall = [op |-> "flush", inst |-> 2, inner |-> "flush"]
    /\ Len(kSinks[2].inner.items) >= 2
    /\ Len(kFactory) = 1
    /\ Len(kSinks) >= 3
    /\ ~kSinks[3].inner.some

\* the number of items a worker pushes in the first g run calls
PushedThrough(g) == SeqSum(SubSeq(mGhost.counts, 1, g))

\* the run call during which a worker pushes its k-th item
RunOf(k) == CHOOSE g \in 1..Len(mGhost.counts) : PushedThrough(g - 1) < k /\ k <= PushedThrough(g)

\* C39: the g-th command a worker receives carries the count of the g-th
\* run call, and the worker pushes that many items before it receives the
\* next one: its k-th push happens while it works on the run call that
\* RunOf(k) names, the item becomes the newest of its ring, and when g run
\* calls have returned it has pushed the sum of their counts. The items in
\* a worker's own sink followed by those in its ring are in push order, so
\* the items of run call g come before those of run call g + 1.
C39_OrderValues ==
    \A w \in Workers :
        LET held == SinkItems(pSinks[w]) \o Live(pRings[w])
        IN  /\ wGhost[w].recv <= Len(mGhost.counts)
            /\ pPushed[w] <= PushedThrough(wGhost[w].recv)
            /\ pPushed[w] >= PushedThrough(wGhost[w].finished)
            /\ mPc = "idle" => pPushed[w] = PushedThrough(mGhost.returned)
            /\ \A i \in 1..Len(held) : \A j \in 1..Len(held) :
                  i < j => /\ ProducerOf(held[i]) = w
                           /\ held[i] < held[j]
                           /\ RunOf(held[i] - ItemOf(w, 0)) <= RunOf(held[j] - ItemOf(w, 0))

C39_OrderStep ==
    \A w \in Workers :
        /\ wGhost'[w].recv = wGhost[w].recv + 1 =>
              wLeft'[w] = mGhost.counts[wGhost'[w].recv]
        /\ pPushed'[w] = pPushed[w] + 1 =>
              /\ RunOf(pPushed'[w]) = wGhost[w].recv
              /\ PeekBack(pRings'[w]) = Some(ItemOf(w, pPushed'[w]))

C39_CommandOrder == []C39_OrderValues /\ [][C39_OrderStep]_vars

\* two run calls with different counts have returned and a ring holds
\* items of both
C39_Witness ==
    /\ mPc = "idle"
    /\ mGhost.counts = <<1, 2>>
    /\ mGhost.returned = 2
    /\ pPushed[1] = 3
    /\ Live(pRings[1]) = <<ItemOf(1, 2), ItemOf(1, 3)>>
    /\ SinkItems(pSinks[1]) = <<ItemOf(1, 1)>>

====
